---- MODULE Spec2Model ----
(***************************************************************************)
(* Model of the lead-qualification pipeline core:                          *)
(*   - PoliteCrawler (services/crawler/crawler.py): robots cache, per      *)
(*     domain rate limit, fetch_url;                                       *)
(*   - BaseAgent.run (libs/agents/base_agent.py): the stage envelope;      *)
(*   - ScorerAgent (libs/agents/scorer.py): fit / intent / timing scores;  *)
(*   - WorkerService (services/workers/worker.py): the consumer loop.      *)
(* Time is counted in ticks of half a second.  Scores are fixed point, in  *)
(* thousandths of a point.                                                 *)
(***************************************************************************)
EXTENDS Integers, Sequences, FiniteSets, TLC

\* ------------------------------------------------------------------ bounds
NTasks == 2
MaxTime == 2
MaxFetches == 3
MaxRuns == 2
MaxDays == 1
MaxEvents == 2
MaxSignals == 2
MaxMsgs == 2
MaxRows == 2
MaxRequests == 4
MaxHiring == 7
MaxKind == 3
MaxUrls == 2

\* ------------------------------------------------------- crawler constants
\* delay_seconds (default 1.0 s) in ticks of half a second
delay_seconds == 2

\* "links": list(set(links))[:50] and "text": text[:10000]
max_links == 50
max_text == 10000

NoTime == 0 - 1
NoStatus == 0 - 1

\* user_agent.split("/")[0].lower(), as RobotFileParser.can_fetch reduces it
user_agent == "leadqualificationbot"

respect_robots_txt == TRUE

VARIABLES
    now,               \* time.time(), in ticks
    last_crawl_times,  \* self.last_crawl_times: netloc -> time (NoTime: absent)
    robots_cache,      \* self.robots_cache: netloc -> parser (NoParser: absent)
    pc,                \* per fetch task: where fetch_url is suspended
    cur,               \* per fetch task: index of its call in calls
    wake_at,           \* per fetch task: when asyncio.sleep is due
    calls,             \* one record per fetch_url call (observation)
    utcnow,            \* datetime.utcnow(), in days
    state,             \* the AgentState the stages are run on
    stage,             \* agent_type of the stage BaseAgent.run is running
    spc,               \* where BaseAgent.run stands
    fault,             \* the exception raised in the running stage, if any
    snap,              \* the state as it was when the exception was raised
    begun,             \* the state at the start of the run, and when execute ran
    obs,               \* the observations logged during the current run
    hist,              \* one record per finished run (observation)
    llm,               \* whether the agents were built with an LLM API key
    inbox,             \* the messages the consumer has yet to deliver
    consumed,          \* the messages delivered so far
    wpc,               \* where the worker loop stands
    plan,              \* the agent runs the current handler has yet to make
    wlog,              \* the worker's log: <<message number, event, detail>>
    handled,           \* per delivered message: handler, outcome, stages run
    committed,         \* how many of the delivered messages are committed
    signals_db,        \* the signals table: one row per stored signal
    search_index,      \* the documents indexed in the "signals" search index
    api_out,           \* the messages the API has published
    requests,          \* how many API requests have been served
    job,               \* the URL list crawl_company was called with
    jpc,               \* where crawl_company stands
    sent               \* the raw.events messages the crawler has sent

crawlVars == <<now, last_crawl_times, robots_cache, pc, cur, wake_at, calls>>
agentVars == <<utcnow, state, stage, spc, fault, snap, begun, obs, hist, llm>>
workerVars == <<inbox, consumed, wpc, plan, wlog, handled, committed>>
apiVars == <<signals_db, search_index, api_out, requests>>
jobVars == <<job, jpc, sent>>
vars == <<crawlVars, agentVars, workerVars, apiVars, jobVars>>

Tasks == 1..NTasks

\* ------------------------------------------------------------------- URLs
Urls ==
    { [netloc |-> "x.com", path |-> <<"public">>],
      [netloc |-> "x.com", path |-> <<"private", "a">>],
      [netloc |-> "y.com", path |-> <<"public">>] }

Domains == { u.netloc : u \in Urls }

\* ------------------------------------------------- urllib.robotparser model
\* A robots.txt body as RobotFileParser.parse reads it: entries in file order,
\* each with its User-agent names and its Allow/Disallow lines.
RobotsPrivate ==
    << [useragents |-> {"otherbot"},
        rulelines  |-> << [path |-> <<>>, allowance |-> FALSE] >>],
       [useragents |-> {"*"},
        rulelines  |-> << [path |-> <<"private">>, allowance |-> FALSE] >>] >>

\* What GET /robots.txt may answer: 200 with a body, a non-200 status, or an
\* exception (status 0: connection error or timeout).
RobotsResponses ==
    { [status |-> 200, body |-> RobotsPrivate],
      [status |-> 404, body |-> <<>>],
      [status |-> 0,   body |-> <<>>] }

NoParser == [last_checked |-> FALSE, entries |-> <<>>, absent |-> TRUE]

\* RobotFileParser(): nothing read yet
NewParser == [last_checked |-> FALSE, entries |-> <<>>, absent |-> FALSE]

\* RobotFileParser.parse(lines): stores the entries and marks the file as read
ParserParse(body) == [last_checked |-> TRUE, entries |-> body, absent |-> FALSE]

StartsWith(s, prefix) ==
    /\ Len(prefix) <= Len(s)
    /\ \A i \in 1..Len(prefix) : s[i] = prefix[i]

\* Entry.applies_to(useragent)
AppliesTo(entry, ua) == "*" \in entry.useragents \/ ua \in entry.useragents

\* Entry.allowance(filename): the first rule line that matches decides
RECURSIVE LineAllowance(_, _, _)
LineAllowance(lines, i, path) ==
    IF i > Len(lines) THEN TRUE
    ELSE IF StartsWith(path, lines[i].path) THEN lines[i].allowance
    ELSE LineAllowance(lines, i + 1, path)

Allowance(entry, path) == LineAllowance(entry.rulelines, 1, path)

\* The entries in the order can_fetch consults them: named agents first, in
\* file order, then the default ("*") entry.
RECURSIVE EntryDecision(_, _, _, _)
EntryDecision(entries, i, ua, path) ==
    IF i > Len(entries) THEN "none"
    ELSE IF "*" \notin entries[i].useragents /\ AppliesTo(entries[i], ua)
         THEN (IF Allowance(entries[i], path) THEN "allow" ELSE "disallow")
    ELSE EntryDecision(entries, i + 1, ua, path)

RECURSIVE DefaultDecision(_, _, _)
DefaultDecision(entries, i, path) ==
    IF i > Len(entries) THEN "none"
    ELSE IF "*" \in entries[i].useragents
         THEN (IF Allowance(entries[i], path) THEN "allow" ELSE "disallow")
    ELSE DefaultDecision(entries, i + 1, path)

\* The verdict of a ruleset on a path for an agent
RulesetDecision(entries, ua, path) ==
    LET named == EntryDecision(entries, 1, ua, path)
    IN  IF named # "none" THEN named
        ELSE LET dflt == DefaultDecision(entries, 1, path)
             IN  IF dflt # "none" THEN dflt ELSE "allow"

\* RobotFileParser.can_fetch(useragent, url): until the file has been read
\* (last_checked set by parse) no url is allowable.
ParserCanFetch(parser, ua, path) ==
    IF ~parser.last_checked THEN FALSE
    ELSE RulesetDecision(parser.entries, ua, path) = "allow"

\* ---------------------------------------------------------- PoliteCrawler
\* Mutant of can_fetch: the robots verdict is ignored
can_fetch_Mutant(parser, url) == TRUE

\* PoliteCrawler.can_fetch, once the domain's parser is in the cache
can_fetch(parser, url) ==
    IF ~respect_robots_txt THEN TRUE
    ELSE ParserCanFetch(parser, user_agent, url.path)

\* Mutant of wait_time: sleeps for the elapsed time, not for the remainder
wait_time_Mutant(last, t) ==
    IF last # NoTime /\ t - last < delay_seconds
    THEN t - last
    ELSE 0

\* PoliteCrawler.rate_limit: the time to sleep, given the domain's recorded
\* timestamp (NoTime: the domain is not in last_crawl_times) and time.time()
wait_time(last, t) ==
    IF last # NoTime /\ t - last < delay_seconds
    THEN delay_seconds - (t - last)
    ELSE 0

\* Mutant of last_crawl_time: one timestamp for all domains, the latest
last_crawl_time_Mutant(times, d) ==
    CHOOSE m \in { times[e] : e \in DOMAIN times } :
        \A e \in DOMAIN times : times[e] <= m

\* rate_limit: self.last_crawl_times[domain] (NoTime: domain is not a key)
last_crawl_time(times, d) == times[d]

\* Mutant of record_crawl_time: the timestamp is not recorded
record_crawl_time_Mutant(times, d, t) == times

\* rate_limit: self.last_crawl_times[domain] = time.time()
record_crawl_time(times, d, t) == [times EXCEPT ![d] = t]

\* The parser can_fetch stores for a /robots.txt reply
ParserFor(reply) ==
    IF reply.status = 200 THEN ParserParse(reply.body) ELSE NewParser

NewCall(t, u) ==
    [url |-> u, allowed |-> "none", robots_fetched |-> FALSE,
     robots_status |-> NoStatus, parser |-> NoParser, entered |-> NoTime, prev |-> NoTime,
     returned |-> NoTime, get |-> FALSE, result |-> "none"]

\* fetch_url from the return of can_fetch up to its next suspension: the
\* blocked return, the sleep of rate_limit, or the HTTP GET.  cs is the call
\* log holding this call at index i.
AfterCanFetch(t, i, cs, parser) ==
    LET c  == cs[i]
        d  == c.url.netloc
        ok == can_fetch(parser, c.url)
        w  == wait_time(last_crawl_time(last_crawl_times, d), now)
    IN  IF ~ok
        THEN \* return {"error": "blocked_by_robots_txt"}
             /\ calls' = [cs EXCEPT ![i].parser = parser,
                                    ![i].allowed = "no",
                                    ![i].result = "blocked_by_robots_txt"]
             /\ pc' = [pc EXCEPT ![t] = "idle"]
             /\ UNCHANGED <<last_crawl_times, wake_at>>
        ELSE IF w > 0
        THEN \* await asyncio.sleep(wait_time)
             /\ calls' = [cs EXCEPT ![i].parser = parser,
                                    ![i].allowed = "yes",
                                    ![i].entered = now,
                                    ![i].prev = last_crawl_times[d]]
             /\ pc' = [pc EXCEPT ![t] = "sleep"]
             /\ wake_at' = [wake_at EXCEPT ![t] = now + w]
             /\ UNCHANGED last_crawl_times
        ELSE \* no sleep: the timestamp is set and the GET goes out
             /\ calls' = [cs EXCEPT ![i].parser = parser,
                                    ![i].allowed = "yes",
                                    ![i].entered = now,
                                    ![i].prev = last_crawl_times[d],
                                    ![i].returned = now,
                                    ![i].get = TRUE]
             /\ last_crawl_times' = record_crawl_time(last_crawl_times, d, now)
             /\ pc' = [pc EXCEPT ![t] = "get"]
             /\ UNCHANGED wake_at

\* Mutant of in_cache: the cache is never hit
in_cache_Mutant(cache, d) == FALSE

\* can_fetch: `domain in self.robots_cache`
in_cache(cache, d) == ~cache[d].absent

\* fetch_url(url) is called on task t and runs to its first suspension
FetchStart(t, u) ==
    /\ pc[t] = "idle"
    /\ Len(calls) < MaxFetches
    /\ cur' = [cur EXCEPT ![t] = Len(calls) + 1]
    /\ IF ~in_cache(robots_cache, u.netloc)
       THEN \* await client.get(robots_url)
            /\ calls' = Append(calls, [NewCall(t, u) EXCEPT !.robots_fetched = TRUE])
            /\ pc' = [pc EXCEPT ![t] = "robots"]
            /\ UNCHANGED <<last_crawl_times, wake_at>>
       ELSE AfterCanFetch(t, Len(calls) + 1, Append(calls, NewCall(t, u)),
                          robots_cache[u.netloc])
    /\ UNCHANGED <<now, robots_cache>>
    /\ UNCHANGED <<agentVars, workerVars, apiVars>>

\* The /robots.txt request of task t ends: the parser is stored in the cache
\* (whatever is there by now) and fetch_url goes on
RobotsReply(t, reply) ==
    /\ pc[t] = "robots"
    /\ LET i == cur[t]
           d == calls[i].url.netloc
           parser == ParserFor(reply)
       IN  /\ robots_cache' = [robots_cache EXCEPT ![d] = parser]
           /\ AfterCanFetch(t, i, [calls EXCEPT ![i].robots_status = reply.status],
                            parser)
    /\ UNCHANGED <<now, cur>>
    /\ UNCHANGED <<agentVars, workerVars, apiVars>>

\* asyncio.sleep returns in rate_limit: the timestamp is set, the GET goes out
SleepDone(t) ==
    /\ pc[t] = "sleep"
    /\ now >= wake_at[t]
    /\ LET i == cur[t]
           d == calls[i].url.netloc
       IN  /\ last_crawl_times' = record_crawl_time(last_crawl_times, d, now)
           /\ calls' = [calls EXCEPT ![i].returned = now, ![i].get = TRUE]
    /\ pc' = [pc EXCEPT ![t] = "get"]
    /\ UNCHANGED <<now, robots_cache, cur, wake_at>>
    /\ UNCHANGED <<agentVars, workerVars, apiVars>>

\* How the HTTP GET of fetch_url may end, and what fetch_url returns then
GetOutcomes == {"ok", "http_error", "timeout", "other"}

HttpReply(t, outcome) ==
    /\ pc[t] = "get"
    /\ calls' = [calls EXCEPT ![cur[t]].result = outcome]
    /\ pc' = [pc EXCEPT ![t] = "idle"]
    /\ UNCHANGED <<now, last_crawl_times, robots_cache, cur, wake_at>>
    /\ UNCHANGED <<agentVars, workerVars, apiVars>>

\* A URL that urlparse rejects ("http://[bad": ValueError, Invalid IPv6 URL)
MalformedUrl == [netloc |-> "[bad", path |-> ""]

\* fetch_url(url) is called on task t with a URL that urlparse rejects: the
\* ValueError is raised before any try block and leaves fetch_url
FetchMalformed(t) ==
    /\ pc[t] = "idle"
    /\ Len(calls) < MaxFetches
    /\ calls' = Append(calls, [NewCall(t, MalformedUrl) EXCEPT !.result = "raised"])
    /\ UNCHANGED <<now, last_crawl_times, robots_cache, pc, cur, wake_at>>
    /\ UNCHANGED <<agentVars, workerVars, apiVars>>

\* The clock advances
Tick ==
    /\ now < MaxTime
    /\ now' = now + 1
    /\ UNCHANGED <<last_crawl_times, robots_cache, pc, cur, wake_at, calls>>
    /\ UNCHANGED <<agentVars, workerVars, apiVars>>

CrawlInit ==
    /\ now = 0
    /\ last_crawl_times = [d \in Domains |-> NoTime]
    /\ robots_cache = [d \in Domains |-> NoParser]
    /\ pc = [t \in Tasks |-> "idle"]
    /\ cur = [t \in Tasks |-> 0]
    /\ wake_at = [t \in Tasks |-> 0]
    /\ calls = <<>>

\* crawl_company has not been called
JobParked ==
    /\ job = <<>>
    /\ jpc = "idle"
    /\ sent = <<>>

\* No API request has been served
ApiParked ==
    /\ signals_db = <<>>
    /\ search_index = <<>>
    /\ api_out = <<>>
    /\ requests = 0


\* ============================================================== AgentState
\* Python dicts are functions from their keys; {} is the empty function.
EmptyDict == [k \in {} |-> 0]

Get(d, k, default) == IF k \in DOMAIN d THEN d[k] ELSE default

Put(d, k, v) == [j \in DOMAIN d \cup {k} |-> IF j = k THEN v ELSE d[j]]

\* None, where the value is otherwise a number / a string
NullNum == 0 - 1

\* The day the model starts on
Today == 10 * 10
NullStr == "<None>"

\* Timestamps: None, a naive datetime (day number), or one with a timezone
NoTs == [kind |-> "none", day |-> 0]
Naive(d) == [kind |-> "naive", day |-> d]
Aware(d) == [kind |-> "aware", day |-> d]

\* AgentState(company_id, company_data, events, signals) after __post_init__
AgentState(cid, cd, evs, sigs) ==
    [company_id |-> cid, company_data |-> cd, events |-> evs,
     signals |-> sigs, scores |-> EmptyDict, proposal |-> EmptyDict,
     errors |-> <<>>, warnings |-> <<>>, metadata |-> EmptyDict]

\* An entry of state.errors: "<tag>: <msg>", or the bare msg when tag is ""
ErrorEntry(tag, msg) == [tag |-> tag, msg |-> msg]

NoFault == [hook |-> "none", msg |-> ""]

\* ============================================================= ScorerAgent
\* Scores are fixed point: thousandths of a point.
Milli == 10 * 100
Pts(n) == n * Milli

Min(a, b) == IF a <= b THEN a ELSE b

\* str.lower() on the strings the model draws
Lower(s) ==
    CASE s = "FinTech"    -> "fintech"
      [] s = "Aws"        -> "aws"
      [] s = "Kubernetes" -> "kubernetes"
      [] s = "Python"     -> "python"
      [] s = "React"      -> "react"
      [] s = "Azure"      -> "azure"
      [] s = "Tableau"    -> "tableau"
      [] OTHER            -> s

\* `sub in s` on the strings the model draws: no drawn string holds another
\* as a proper substring
Contains(s, sub) == s = sub

target_industries == {"technology", "fintech", "saas", "healthcare", "enterprise"}

modern_tech == {"aws", "azure", "gcp", "kubernetes", "python", "react",
                "microservices", "api"}

\* len([x for x in seq if test(x)]), given the sequence of the tests' values
CountIf(tests) == Cardinality({ i \in 1..Len(tests) : tests[i] })

\* _is_recent(timestamp, days) for None and naive timestamps
is_recent(ts, days, at) == ts.kind = "naive" /\ ts.day > at - days

\* _is_recent raises TypeError when the timestamp carries a timezone: it is
\* compared with the naive utcnow() - timedelta(days)
is_recent_raises(ts) == ts.kind = "aware"

\* round(x, 2): the multiple of m nearest to x, ties to the even multiple
RoundTo(x, m) ==
    LET q == x \div m
        r == x % m
    IN  IF 2 * r < m THEN q * m
        ELSE IF 2 * r > m THEN (q + 1) * m
        ELSE IF q % 2 = 0 THEN q * m ELSE (q + 1) * m

\* round(score, 2) of a score in thousandths
Round2(x) == RoundTo(x, 10)

\* calculate_fit_score raises TypeError when employee_count is None
fit_raises(cd) == Get(cd, "employee_count", 0) = NullNum

calculate_fit_score(cd) ==
    LET industry == Lower(Get(cd, "industry", ""))
        industry_pts ==
            IF \E target \in target_industries : Contains(industry, target)
            THEN Pts(30) ELSE 0
        employee_count == Get(cd, "employee_count", 0)
        size_pts ==
            IF 200 <= employee_count /\ employee_count <= 5000 THEN Pts(30)
            ELSE IF \/ (50 <= employee_count /\ employee_count < 200)
                    \/ (5000 < employee_count /\ employee_count <= 10000)
                 THEN Pts(20)
            ELSE IF employee_count > 0 THEN Pts(10)
            ELSE 0
        tech_stack == Get(cd, "tech_stack", <<>>)
        IsModern(tech) == \E modern \in modern_tech : Contains(Lower(tech), modern)
        modern_tech_count == CountIf([i \in 1..Len(tech_stack) |-> IsModern(tech_stack[i])])
        tech_pts == Min(modern_tech_count * Pts(5), Pts(20))
        funding_pts == IF Get(cd, "total_funding", 0) > 0 THEN Pts(10) ELSE 0
        revenue == Get(cd, "revenue", NullStr)
        revenue_pts == IF revenue # NullStr /\ revenue # "" THEN Pts(10) ELSE 0
    IN  Min(industry_pts + size_pts + tech_pts + funding_pts + revenue_pts, Pts(100))

\* the list comprehensions over events call _is_recent on every event
events_raise(events) ==
    \E i \in 1..Len(events) : is_recent_raises(Get(events[i], "timestamp", NoTs))

\* Mutant of calculate_intent_score: every signal is worth 25 points
calculate_intent_score_Mutant(events, signals, at) ==
    Min(Len(signals) * Pts(25), Pts(100))

calculate_intent_score(events, signals, at) ==
    LET IsHiring(e) ==
            /\ is_recent(Get(e, "timestamp", NoTs), 30, at)
            /\ Get(e, "event_type", "") \in {"job_posting", "careers"}
        KindIn(K) ==
            CountIf([i \in 1..Len(signals) |-> Get(signals[i], "kind", "") \in K])
        hiring    ==
            Min(CountIf([i \in 1..Len(events) |-> IsHiring(events[i])]) * Pts(5),
                Pts(30))
        tech      == Min((KindIn({"tech_adoption"}) * Pts(25)) \div 2, Pts(25))
        funding   == IF KindIn({"funding_event", "budget_event"}) > 0
                     THEN Pts(20) ELSE 0
        expansion == Min((KindIn({"expansion", "product_launch"}) * Pts(15)) \div 2,
                         Pts(15))
        pain      == Min(KindIn({"pain_point"}) * Pts(5), Pts(10))
    IN  Min(hiring + tech + funding + expansion + pain, Pts(100))

\* Mutant of calculate_timing_score: the 30-day count is compared with the
\* whole 90-day count
calculate_timing_score_Mutant(events, signals, at) ==
    LET Within(days) ==
            CountIf([i \in 1..Len(events) |->
                        is_recent(Get(events[i], "timestamp", NoTs), days, at)])
        recency ==
            IF Within(7) > 0 THEN Pts(50)
            ELSE IF Within(30) > 0 THEN Pts(35)
            ELSE IF Within(90) > 0 THEN Pts(20)
            ELSE 0
        velocity ==
            IF Within(30) > Within(90) THEN Pts(50)
            ELSE IF Within(30) > 0 THEN Pts(25)
            ELSE 0
    IN  Min(recency + velocity, Pts(100))

calculate_timing_score(events, signals, at) ==
    LET Within(days) ==
            CountIf([i \in 1..Len(events) |->
                        is_recent(Get(events[i], "timestamp", NoTs), days, at)])
        recent_7d  == Within(7)
        recent_30d == Within(30)
        recent_90d == Within(90)
        recency ==
            IF recent_7d > 0 THEN Pts(50)
            ELSE IF recent_30d > 0 THEN Pts(35)
            ELSE IF recent_90d > 0 THEN Pts(20)
            ELSE 0
        velocity ==
            IF recent_30d > recent_90d - recent_30d THEN Pts(50)
            ELSE IF recent_30d > 0 THEN Pts(25)
            ELSE 0
    IN  Min(recency + velocity, Pts(100))

\* any(test(s) for s in signals), where a test may raise, given the sequences
\* of the tests' values and of whether they raise: "T", "F" or "raise";
\* any() stops at the first true element.
AnyOf(tests, raises) ==
    LET stops == { i \in 1..Len(tests) : raises[i] \/ tests[i] }
    IN  IF stops = {} THEN "F"
        ELSE LET first == CHOOSE i \in stops : \A j \in stops : i <= j
             IN  IF raises[first] THEN "raise" ELSE "T"

\* check_bant_qualification: "T", "F", or "raise"
check_bant_qualification(st, at) ==
    LET cd == st.company_data
        has_budget ==
            \/ Get(cd, "total_funding", 0) > 0
            \/ Get(cd, "revenue", NullStr) # NullStr
        has_authority == Get(cd, "employee_count", 0) < 5000
        has_need == Len(st.signals) > 0
        has_timeline ==
            AnyOf([i \in 1..Len(st.signals) |->
                      is_recent(Get(st.signals[i], "timestamp_start", NoTs), 90, at)],
                  [i \in 1..Len(st.signals) |->
                      is_recent_raises(Get(st.signals[i], "timestamp_start", NoTs))])
    IN  IF has_timeline = "raise" THEN "raise"
        ELSE IF has_budget /\ has_authority /\ has_need /\ has_timeline = "T"
             THEN "T" ELSE "F"

\* Mutant of check_champ_qualification: money is not required
check_champ_qualification_Mutant(st, at) ==
    LET has_challenges ==
            \E i \in 1..Len(st.signals) :
                Get(st.signals[i], "kind", "") \in {"pain_point", "hiring_spike"}
        has_authority == Get(st.company_data, "employee_count", 0) < 5000
        has_priority ==
            AnyOf([i \in 1..Len(st.signals) |->
                      /\ Get(st.signals[i], "score", 0) > 75
                      /\ is_recent(Get(st.signals[i], "timestamp_start", NoTs), 30, at)],
                  [i \in 1..Len(st.signals) |->
                      /\ Get(st.signals[i], "score", 0) > 75
                      /\ is_recent_raises(Get(st.signals[i], "timestamp_start", NoTs))])
    IN  IF has_priority = "raise" THEN "raise"
        ELSE IF has_challenges /\ has_authority /\ has_priority = "T"
             THEN "T" ELSE "F"

\* check_champ_qualification: "T", "F", or "raise"
check_champ_qualification(st, at) ==
    LET cd == st.company_data
        has_challenges ==
            \E i \in 1..Len(st.signals) :
                Get(st.signals[i], "kind", "") \in {"pain_point", "hiring_spike"}
        has_authority == Get(cd, "employee_count", 0) < 5000
        has_money == Get(cd, "total_funding", 0) > 0
        has_priority ==
            AnyOf([i \in 1..Len(st.signals) |->
                      /\ Get(st.signals[i], "score", 0) > 75
                      /\ is_recent(Get(st.signals[i], "timestamp_start", NoTs), 30, at)],
                  [i \in 1..Len(st.signals) |->
                      /\ Get(st.signals[i], "score", 0) > 75
                      /\ is_recent_raises(Get(st.signals[i], "timestamp_start", NoTs))])
    IN  IF has_priority = "raise" THEN "raise"
        ELSE IF has_challenges /\ has_authority /\ has_money /\ has_priority = "T"
             THEN "T" ELSE "F"

\* Mutant of overall_score: the timing weight is taken to be 0.4, too
overall_score_Mutant(fit, intent, timing) == 4 * fit + 4 * intent + 4 * timing

\* fit * 0.4 + intent * 0.4 + timing * 0.2, in ten-thousandths of a point
overall_score(fit, intent, timing) == 4 * fit + 4 * intent + 2 * timing

\* Mutant of StoreScores: the new scores are merged into those already stored,
\* keeping a running overall
StoreScores_Mutant(old, new) ==
    [k \in DOMAIN old \cup DOMAIN new |->
        IF k = "overall" /\ k \in DOMAIN old THEN old[k] + new[k]
        ELSE IF k \in DOMAIN new THEN new[k] ELSE old[k]]

\* state.scores = {...}: the dict is replaced, whatever it held
StoreScores(old, new) == new

\* Mutant of ScorerExecute: the stored scores are cleared before the company
\* data is looked at
ScorerExecute_Mutant(st, at) ==
    [state |-> [st EXCEPT !.scores = EmptyDict,
                          !.errors = Append(@, ErrorEntry("", "No company data to score"))],
     raised |-> ""]

\* ScorerAgent.execute: the state it leaves and the exception it raises, if any
ScorerExecute(st, at) ==
    IF st.company_data = EmptyDict
    THEN [state |-> [st EXCEPT !.errors =
                        Append(@, ErrorEntry("", "No company data to score"))],
          raised |-> ""]
    ELSE IF fit_raises(st.company_data) \/ events_raise(st.events)
    THEN [state |-> st, raised |-> "TypeError"]
    ELSE
    LET fit_score    == calculate_fit_score(st.company_data)
        intent_score == calculate_intent_score(st.events, st.signals, at)
        timing_score == calculate_timing_score(st.events, st.signals, at)
        overall      == overall_score(fit_score, intent_score, timing_score)
        scores4 == [overall |-> RoundTo(overall, 100) \div 10,
                    fit     |-> Round2(fit_score),
                    intent  |-> Round2(intent_score),
                    timing  |-> Round2(timing_score)]
        st4  == [st EXCEPT !.scores = StoreScores(@, scores4)]
        bant == check_bant_qualification(st4, at)
        st5  == [st4 EXCEPT !.scores = Put(@, "bant_qualified", bant = "T")]
        champ == check_champ_qualification(st5, at)
        st6  == [st5 EXCEPT !.scores = Put(@, "champ_qualified", champ = "T")]
    IN  IF bant = "raise" THEN [state |-> st4, raised |-> "TypeError"]
        ELSE IF champ = "raise" THEN [state |-> st5, raised |-> "TypeError"]
        ELSE [state |-> st6, raised |-> ""]

\* =========================================================== EnricherAgent
\* What the environment decides during one execute: the LLM's reply, the
\* iteration order of a Python set, what the discovery requests find
LlmReplies == {"fails", "not_json", "object", "array"}

EnvChoices ==
    [reply : LlmReplies, reversed : BOOLEAN, found : {<<>>, <<"careers">>}]

NoChoice == [reply |-> "fails", reversed |-> FALSE, found |-> <<>>]

\* The texts events carry, and the tech_keywords each holds once lowered
TechIn(text) ==
    CASE text = "We run AWS and Kubernetes" -> {"aws", "kubernetes"}
      [] text = "Dashboards in Tableau"     -> {"tableau"}
      [] OTHER                              -> {}

\* str.title() on the tech_keywords the model draws
Title(t) ==
    CASE t = "aws"        -> "Aws"
      [] t = "kubernetes" -> "Kubernetes"
      [] t = "tableau"    -> "Tableau"
      [] OTHER            -> t

RECURSIVE SetToSeq(_)
SetToSeq(S) ==
    IF S = {} THEN <<>>
    ELSE LET x == CHOOSE y \in S : TRUE IN <<x>> \o SetToSeq(S \ {x})

Reverse(q) == [i \in 1..Len(q) |-> q[Len(q) + 1 - i]]

\* Mutant of extract_tech_stack: a list, not a set, collects the terms
extract_tech_stack_Mutant(events, reversed) ==
    LET PerEvent(e) ==
            SetToSeq({ Title(t) : t \in TechIn(Get(e, "text", ""))
                                        \cup TechIn(Get(e, "title", "")) })
        listed == IF events = <<>> THEN <<>>
                  ELSE IF Len(events) = 1 THEN PerEvent(events[1])
                  ELSE PerEvent(events[1]) \o PerEvent(events[2])
    IN  IF reversed THEN Reverse(listed) ELSE listed

\* extract_tech_stack: list(found_tech), in the order the set iterates
extract_tech_stack(events, reversed) ==
    LET found_tech ==
            { Title(t) : t \in UNION { TechIn(Get(events[i], "text", ""))
                                       \cup TechIn(Get(events[i], "title", ""))
                                       : i \in 1..Len(events) } }
        listed == SetToSeq(found_tech)
    IN  IF reversed THEN Reverse(listed) ELSE listed

\* categorize_company raises TypeError when employee_count is None
categorize_raises(cd) == Get(cd, "employee_count", 0) = NullNum

\* Mutant of categorize_company: the bounds are inclusive
categorize_company_Mutant(cd) ==
    LET employee_count == Get(cd, "employee_count", 0)
    IN  IF employee_count <= 50 THEN "small_business"
        ELSE IF employee_count <= 500 THEN "mid_market"
        ELSE "enterprise"

categorize_company(cd) ==
    LET employee_count == Get(cd, "employee_count", 0)
    IN  IF employee_count < 50 THEN "small_business"
        ELSE IF employee_count < 500 THEN "mid_market"
        ELSE "enterprise"

\* enrich_from_events: what json.loads of the reply gives; a failed call or a
\* reply that is not JSON gives {}
enrich_from_events(reply) ==
    IF reply = "object"
    THEN [industry |-> "saas", stage |-> "growth"]
    ELSE EmptyDict

\* dict.update(other)
Update(d, other) ==
    [k \in DOMAIN d \cup DOMAIN other |->
        IF k \in DOMAIN other THEN other[k] ELSE d[k]]

\* EnricherAgent.execute
EnricherExecute(st, has_llm, c) ==
    IF st.company_data = EmptyDict
    THEN [state |-> [st EXCEPT !.errors =
                        Append(@, ErrorEntry("", "No company data to enrich"))],
          raised |-> ""]
    ELSE IF has_llm /\ st.events # <<>> /\ c.reply = "array"
    THEN \* company_data.update(<a JSON array>) raises
         [state |-> st, raised |-> "ValueError"]
    ELSE
    LET cd1 == IF has_llm /\ st.events # <<>>
               THEN Update(st.company_data, enrich_from_events(c.reply))
               ELSE st.company_data
        cd2 == Put(cd1, "tech_stack", extract_tech_stack(st.events, c.reversed))
        cd3 == Put(cd2, "category", categorize_company(cd2))
    IN  IF categorize_raises(cd2)
        THEN [state |-> [st EXCEPT !.company_data = cd2], raised |-> "TypeError"]
        ELSE [state |-> [st EXCEPT !.company_data = cd3], raised |-> ""]

\* ========================================================= DiscovererAgent
DiscovererExecute(st, c) ==
    IF st.company_data # EmptyDict /\ Get(st.company_data, "domain", "") # ""
    THEN [state |-> [st EXCEPT !.metadata = Put(@, "discovered_urls", c.found)],
          raised |-> ""]
    ELSE [state |-> [st EXCEPT !.metadata = Put(@, "discovered_companies", <<>>)],
          raised |-> ""]

\* =========================================================== ProposerAgent
\* _generate_outline / _generate_content: the reply, or the fallback text
\* when the call raises
Generated(reply, what) ==
    IF reply = "fails" THEN <<"Error generating", what>> ELSE <<"generated", what>>

\* Mutant of ProposerExecute: the company data is not looked at
ProposerExecute_Mutant(st, has_llm, c) ==
    IF ~has_llm
    THEN [state |-> [st EXCEPT !.errors =
              Append(@, ErrorEntry("", "No LLM configured for proposal generation"))],
          raised |-> ""]
    ELSE [state |-> [st EXCEPT !.proposal =
              [title    |-> Get(st.company_data, "name", "Your Company"),
               outline  |-> Generated(c.reply, "outline"),
               content  |-> Generated(c.reply, "content"),
               evidence |-> Min(Len(st.events), 10)]],
          raised |-> ""]

ProposerExecute(st, has_llm, c) ==
    IF ~has_llm
    THEN [state |-> [st EXCEPT !.errors =
              Append(@, ErrorEntry("", "No LLM configured for proposal generation"))],
          raised |-> ""]
    ELSE IF st.company_data = EmptyDict
    THEN [state |-> [st EXCEPT !.errors =
              Append(@, ErrorEntry("", "No company data for proposal"))],
          raised |-> ""]
    ELSE [state |-> [st EXCEPT !.proposal =
              [title    |-> Get(st.company_data, "name", "Your Company"),
               outline  |-> Generated(c.reply, "outline"),
               content  |-> Generated(c.reply, "content"),
               evidence |-> Min(Len(st.events), 10)]],
          raised |-> ""]

AgentTypes == {"discoverer", "enricher", "scorer", "proposer"}

\* What a stage's execute does: the state it leaves, the exception it raises
StageExecute(a, st, at, has_llm, c) ==
    CASE a = "scorer"     -> ScorerExecute(st, at)
      [] a = "enricher"   -> EnricherExecute(st, has_llm, c)
      [] a = "discoverer" -> DiscovererExecute(st, c)
      [] a = "proposer"   -> ProposerExecute(st, has_llm, c)

\* =============================================================== BaseAgent
\* BaseAgent.run: the calls inside its try block
in_try(hook) == hook \in {"pre_execute", "execute", "post_execute"}

\* Mutant of run_except: the entry is appended without the stage's name
run_except_Mutant(st, a, e) ==
    [st EXCEPT !.errors = Append(@, ErrorEntry("", e.msg))]

\* Mutant of run_except: the error list is replaced by the new entry
run_except_Clear(st, a, e) ==
    [st EXCEPT !.errors = << ErrorEntry(a, e.msg) >>]

\* BaseAgent.run, the except clause: state.errors.append(f"{agent_type}: {e}")
run_except(st, a, e) ==
    [st EXCEPT !.errors = Append(@, ErrorEntry(a, e.msg))]

\* Mutant of StartKey: one key for all stages
StartKey_Mutant(a) == "start_time"

\* f"{agent_type}_start_time", f"{agent_type}_end_time"
StartKey(a) ==
    CASE a = "discoverer" -> "discoverer_start_time"
      [] a = "enricher"   -> "enricher_start_time"
      [] a = "scorer"     -> "scorer_start_time"
      [] a = "proposer"   -> "proposer_start_time"

EndKey(a) ==
    CASE a = "discoverer" -> "discoverer_end_time"
      [] a = "enricher"   -> "enricher_end_time"
      [] a = "scorer"     -> "scorer_end_time"
      [] a = "proposer"   -> "proposer_end_time"

\* The record of a finished run: the stage, the inputs it began with, the
\* time execute ran at, and the scores the returned state holds
RunRecord(exit) ==
    [stage |-> stage, company_data |-> begun.state.company_data,
     events |-> begun.state.events, signals |-> begun.state.signals,
     at |-> begun.at, scores |-> exit.scores]

\* agent.run(state) is called
BeginRun(a) ==
    /\ spc = "idle"
    /\ Len(hist) < MaxRuns
    /\ stage' = a
    /\ spc' = "pre"
    /\ fault' = NoFault
    /\ snap' = state
    /\ begun' = [state |-> state, at |-> NullNum]
    /\ obs' = <<>>
    /\ UNCHANGED <<utcnow, state, hist, llm>>
    /\ UNCHANGED <<crawlVars, apiVars, jobVars>>

\* A caller other than the worker runs stage a on the state
StageBegin(a) ==
    /\ BeginRun(a)
    /\ UNCHANGED workerVars

\* pre_execute: the start time goes into the metadata, then "agent_started"
\* is logged; inject: the logging call raises
PreExecute(inject) ==
    /\ spc = "pre"
    /\ state' = [state EXCEPT !.metadata = Put(@, StartKey(stage), utcnow)]
    /\ IF inject
       THEN /\ fault' = [hook |-> "pre_execute", msg |-> "log failure"]
            /\ snap' = state'
            /\ spc' = "raised"
            /\ obs' = obs
       ELSE /\ obs' = Append(obs, "agent_started")
            /\ spc' = "exec"
            /\ UNCHANGED <<fault, snap>>
    /\ UNCHANGED <<utcnow, stage, begun, hist, llm>>
    /\ UNCHANGED <<crawlVars, workerVars, apiVars, jobVars>>

\* process_clean_event builds the state with company_data =
\* data.get("company_data", {}) and events = [data]: when the message has the
\* key, state.company_data and state.events[0]["company_data"] are one dict
SharesCompanyData ==
    /\ wpc = "handling"
    /\ consumed[Len(consumed)].topic = "clean.events"
    /\ "company_data" \in DOMAIN consumed[Len(consumed)].value

\* What writes to state.company_data do to the state: the event that holds
\* the same dict shows them
WriteThrough(st) ==
    IF SharesCompanyData
    THEN [st EXCEPT !.events[1].company_data = st.company_data]
    ELSE st

\* execute: the stage's own logic; inject: it raises before doing anything
Execute(inject, c) ==
    /\ spc = "exec"
    /\ begun' = [begun EXCEPT !.at = utcnow]
    /\ IF inject
       THEN /\ fault' = [hook |-> "execute", msg |-> "stage failure"]
            /\ snap' = state
            /\ spc' = "raised"
            /\ UNCHANGED <<state, obs>>
       ELSE LET r0 == StageExecute(stage, state, utcnow, llm, c)
                r  == [r0 EXCEPT !.state = WriteThrough(r0.state)]
            IN  /\ state' = r.state
                /\ IF r.raised # ""
                   THEN /\ fault' = [hook |-> "execute", msg |-> r.raised]
                        /\ snap' = r.state
                        /\ spc' = "raised"
                        /\ obs' = obs
                   ELSE /\ spc' = "post"
                        /\ obs' = obs
                        /\ UNCHANGED <<fault, snap>>
    /\ UNCHANGED <<utcnow, stage, hist, llm>>
    /\ UNCHANGED <<crawlVars, workerVars, apiVars, jobVars>>

\* post_execute: the end time goes into the metadata, then "agent_completed"
\* is logged with the duration, and run returns the state; inject: computing
\* the duration or the logging call raises
PostExecute(inject) ==
    /\ spc = "post"
    /\ state' = [state EXCEPT !.metadata = Put(@, EndKey(stage), utcnow)]
    /\ IF inject
       THEN /\ fault' = [hook |-> "post_execute", msg |-> "log failure"]
            /\ snap' = state'
            /\ spc' = "raised"
            /\ UNCHANGED <<obs, hist>>
       ELSE /\ obs' = Append(obs, "agent_completed")
            /\ spc' = "idle"
            /\ hist' = Append(hist, RunRecord(state'))
            /\ UNCHANGED <<fault, snap>>
    /\ UNCHANGED <<utcnow, stage, begun, llm>>
    /\ UNCHANGED <<crawlVars, workerVars, apiVars, jobVars>>

\* An exception leaves the hook that raised it: the except clause of run logs
\* "agent_execution_failed", appends the error and run returns the state; an
\* exception raised outside the try block leaves run
Except ==
    /\ spc = "raised"
    /\ IF in_try(fault.hook)
       THEN /\ obs' = Append(obs, "agent_execution_failed")
            /\ state' = run_except(state, stage, fault)
            /\ hist' = Append(hist, RunRecord(state'))
            /\ spc' = "idle"
       ELSE /\ spc' = "propagated"
            /\ UNCHANGED <<state, obs, hist>>
    /\ UNCHANGED <<utcnow, stage, fault, snap, begun, llm>>
    /\ UNCHANGED <<crawlVars, workerVars, apiVars, jobVars>>

\* A day passes
DayPasses ==
    /\ utcnow < Today + MaxDays
    /\ utcnow' = utcnow + 1
    /\ UNCHANGED <<state, stage, spc, fault, snap, begun, obs, hist, llm>>
    /\ UNCHANGED <<crawlVars, workerVars, apiVars, jobVars>>

WorkerParked ==
    /\ inbox = <<>>
    /\ consumed = <<>>
    /\ wpc = "poll"
    /\ plan = <<>>
    /\ wlog = <<>>
    /\ handled = <<>>
    /\ committed = 0

\* ------------------------------------------------------------ scorer inputs
DaysAgo(n) == Naive(Today - n)

EventChoices ==
    { [event_type |-> "job_posting", timestamp |-> DaysAgo(3)],
      [event_type |-> "web_crawl",   timestamp |-> DaysAgo(6)],
      [event_type |-> "web_crawl",   timestamp |-> Aware(Today)] }

SignalChoices ==
    { [kind |-> "tech_adoption", score |-> 50, timestamp_start |-> DaysAgo(10)],
      [kind |-> "pain_point",    score |-> 80, timestamp_start |-> DaysAgo(29)],
      [kind |-> "hiring_spike",  score |-> 90, timestamp_start |-> Aware(Today)] }

SeqsUpTo(S, n) == UNION { [1..k -> S] : k \in 0..n }

CompanyChoices ==
    { EmptyDict,
      [name |-> "Acme"],
      [industry |-> "FinTech", employee_count |-> 1200,
       tech_stack |-> <<"Aws", "Kubernetes">>, total_funding |-> 5000000,
       revenue |-> "10M"],
      [industry |-> "FinTech", employee_count |-> 300,
       tech_stack |-> <<"Aws", "Kubernetes", "Python", "React", "Azure">>,
       total_funding |-> 5000000, revenue |-> "10M"],
      [industry |-> "retail", employee_count |-> 100,
       tech_stack |-> <<"Tableau">>, total_funding |-> 0, revenue |-> ""],
      [industry |-> "retail", employee_count |-> 7000,
       tech_stack |-> <<"Aws">>, total_funding |-> 0, revenue |-> NullStr],
      [industry |-> "saas", employee_count |-> 20,
       tech_stack |-> <<>>, total_funding |-> 250000, revenue |-> NullStr],
      [industry |-> "saas", employee_count |-> NullNum,
       tech_stack |-> <<>>, total_funding |-> 250000, revenue |-> "10M"] }

\* Scores a state may carry from an earlier run
StoredScores ==
    { EmptyDict,
      [overall |-> Pts(50), fit |-> Pts(50), intent |-> Pts(50),
       timing |-> Pts(50), bant_qualified |-> TRUE, champ_qualified |-> TRUE] }

AgentIdle ==
    /\ utcnow = Today
    /\ stage = "none"
    /\ spc = "idle"
    /\ fault = NoFault
    /\ obs = <<>>
    /\ hist = <<>>

ScoreInit ==
    /\ CrawlInit
    /\ ApiParked
    /\ JobParked
    /\ WorkerParked
    /\ AgentIdle
    /\ llm = FALSE
    /\ \E cd \in CompanyChoices, evs \in SeqsUpTo(EventChoices, MaxEvents),
          sigs \in SeqsUpTo(SignalChoices, MaxSignals), sc \in StoredScores :
          state = [AgentState(1, cd, evs, sigs) EXCEPT !.scores = sc]
    /\ snap = state
    /\ begun = [state |-> state, at |-> NullNum]

ScoreNext ==
    \/ StageBegin("scorer")
    \/ PreExecute(FALSE)
    \/ Execute(FALSE, NoChoice)
    \/ PostExecute(FALSE)
    \/ Except
    \/ DayPasses

SpecScore == ScoreInit /\ [][ScoreNext]_vars

\* ------------------------------------------------------- any stage, faults
StageEvents ==
    { <<>>,
      << [event_type |-> "web_crawl", timestamp |-> DaysAgo(3),
          title |-> "Blog", text |-> "We run AWS and Kubernetes"] >> }

StageCompanies ==
    { EmptyDict,
      [name |-> "Acme", domain |-> "x.com", industry |-> "FinTech",
       employee_count |-> 1200, total_funding |-> 5000000],
      [name |-> "Null Inc", employee_count |-> NullNum] }

StageInit ==
    /\ CrawlInit
    /\ ApiParked
    /\ JobParked
    /\ WorkerParked
    /\ AgentIdle
    /\ llm \in BOOLEAN
    /\ \E cd \in StageCompanies, evs \in StageEvents :
          state = AgentState(1, cd, evs, <<>>)
    /\ snap = state
    /\ begun = [state |-> state, at |-> NullNum]

StageNext ==
    \/ \E a \in AgentTypes : StageBegin(a)
    \/ \E inject \in BOOLEAN : PreExecute(inject)
    \/ \E inject \in BOOLEAN, c \in EnvChoices : Execute(inject, c)
    \/ \E inject \in BOOLEAN : PostExecute(inject)
    \/ Except
    \/ DayPasses

SpecStage == StageInit /\ [][StageNext]_vars

\* ------------------------------------------- enrichment, then scoring
\* The employee counts around the bounds of the segments
SegmentCases == {0, 49, 50, 499, 500, 1200}

EnrichCompanies ==
    { EmptyDict,
      [name |-> "Acme"],
      [name |-> "Null Inc", employee_count |-> NullNum] }
        \cup { [name |-> "Acme", industry |-> "retail", employee_count |-> e,
                tech_stack |-> <<"Aws", "Python">>] : e \in SegmentCases }

EnrichEvents ==
    StageEvents \cup
    { << [event_type |-> "web_crawl", timestamp |-> DaysAgo(3),
          title |-> "Blog", text |-> "We run AWS and Kubernetes"],
         [event_type |-> "web_crawl", timestamp |-> DaysAgo(4),
          title |-> "We run AWS and Kubernetes", text |-> "Dashboards in Tableau"] >>,
      << [event_type |-> "web_crawl", timestamp |-> DaysAgo(3),
          title |-> "Careers", text |-> "About us"] >> }

EnrichInit ==
    /\ CrawlInit
    /\ ApiParked
    /\ JobParked
    /\ WorkerParked
    /\ AgentIdle
    /\ llm \in BOOLEAN
    /\ \E cd \in EnrichCompanies, evs \in EnrichEvents, sc \in StoredScores :
          state = [AgentState(1, cd, evs, <<>>) EXCEPT !.scores = sc]
    /\ snap = state
    /\ begun = [state |-> state, at |-> NullNum]

EnrichNext ==
    \/ \E a \in {"enricher", "scorer"} : StageBegin(a)
    \/ PreExecute(FALSE)
    \/ \E c \in EnvChoices : Execute(FALSE, c)
    \/ PostExecute(FALSE)
    \/ Except

SpecEnrich == EnrichInit /\ [][EnrichNext]_vars

\* =========================================================== WorkerService
\* A message value that json.loads turned into something other than a dict
NotADict == [is_list |-> TRUE]

IsDict(v) == "is_list" \notin DOMAIN v

Topics == {"raw.events", "clean.events", "signals.detected", "actions.triggered"}

GoodCompany ==
    [industry |-> "FinTech", employee_count |-> 300, total_funding |-> 5000000]

NullCompany == [industry |-> "saas", employee_count |-> NullNum]

\* The messages the broker may deliver
MsgChoices ==
    { [topic |-> "raw.events",
       value |-> [event_type |-> "web_crawl", company_id |-> 1]],
      [topic |-> "raw.events", value |-> NotADict],
      [topic |-> "clean.events",
       value |-> [event_type |-> "job_posting", company_id |-> 1,
                  timestamp |-> DaysAgo(3), company_data |-> GoodCompany]],
      [topic |-> "clean.events", value |-> [event_type |-> "web_crawl"]],
      [topic |-> "signals.detected",
       value |-> [signal_id |-> 7, company_id |-> 1, score |-> 90]],
      [topic |-> "signals.detected",
       value |-> [signal_id |-> 8, company_id |-> 1, score |-> 50]],
      [topic |-> "actions.triggered",
       value |-> [action_type |-> "run_agent", agent_type |-> "scorer",
                  company_id |-> 1,
                  input_data |-> [company_data |-> NullCompany]]],
      [topic |-> "actions.triggered",
       value |-> [action_type |-> "run_agent", agent_type |-> "enricher",
                  company_id |-> 2,
                  input_data |-> [company_data |-> GoodCompany,
                                  events |-> << [event_type |-> "web_crawl",
                                                 timestamp |-> DaysAgo(3)] >>]]],
      [topic |-> "actions.triggered",
       value |-> [action_type |-> "run_agent", agent_type |-> "discoverer",
                  company_id |-> 2]],
      [topic |-> "actions.triggered",
       value |-> [action_type |-> "run_agent", agent_type |-> "proposer",
                  company_id |-> 2,
                  input_data |-> [company_data |-> GoodCompany]]],
      [topic |-> "actions.triggered",
       value |-> [action_type |-> "run_agent", agent_type |-> "unknown_agent",
                  company_id |-> 1]],
      [topic |-> "actions.triggered",
       value |-> [action_type |-> "run_agent", agent_type |-> "scorer",
                  company_id |-> 1, input_data |-> NotADict]],
      [topic |-> "actions.triggered",
       value |-> [action_type |-> "generate_proposal", company_id |-> 1,
                  company_data |-> GoodCompany]],
      [topic |-> "actions.triggered",
       value |-> [action_type |-> "generate_proposal", company_id |-> 2,
                  product_id |-> "p1", user_id |-> 1]],
      [topic |-> "actions.triggered",
       value |-> [action_type |-> "crm_sync", crm_type |-> "hubspot"]],
      [topic |-> "actions.triggered",
       value |-> [action_type |-> "unknown_type", company_id |-> 1]] }

LogEntry(level, event, detail) ==
    [level |-> level, event |-> event, detail |-> detail]

\* What a handler does up to its first agent run: whether it raised, what it
\* logged, whether it built an AgentState (and which), the agent runs it goes
\* on to make, and the handler's name
Outcome(name, raised, logs, created, st, runs) ==
    [handler |-> name, raised |-> raised, logs |-> logs, created |-> created,
     st |-> st, plan |-> runs]

NoState == AgentState(0, EmptyDict, <<>>, <<>>)

process_raw_event(data) ==
    IF ~IsDict(data)
    THEN Outcome("process_raw_event", TRUE, <<>>, FALSE, NoState, <<>>)
    ELSE Outcome("process_raw_event", FALSE,
                 << LogEntry("debug", "Processing raw event",
                             Get(data, "event_type", NullStr)) >>,
                 FALSE, NoState, <<>>)

\* Mutant of process_clean_event: the scorer is run before the enricher
process_clean_event_Mutant(data) ==
    IF ~IsDict(data) \/ Get(data, "company_id", 0) = 0
    THEN Outcome("process_clean_event", ~IsDict(data), <<>>, FALSE, NoState, <<>>)
    ELSE Outcome("process_clean_event", FALSE,
                 << LogEntry("debug", "Processing clean event",
                             Get(data, "event_type", NullStr)) >>,
                 TRUE,
                 AgentState(Get(data, "company_id", 0),
                            Get(data, "company_data", EmptyDict),
                            << data >>, <<>>),
                 << "scorer", "enricher" >>)

\* Mutant of process_clean_event: the message is put in the event list twice
process_clean_event_Doubled(data) ==
    IF ~IsDict(data) \/ Get(data, "company_id", 0) = 0
    THEN Outcome("process_clean_event", ~IsDict(data), <<>>, FALSE, NoState, <<>>)
    ELSE Outcome("process_clean_event", FALSE,
                 << LogEntry("debug", "Processing clean event",
                             Get(data, "event_type", NullStr)) >>,
                 TRUE,
                 AgentState(Get(data, "company_id", 0),
                            Get(data, "company_data", EmptyDict),
                            << data, data >>, <<>>),
                 << "enricher", "scorer" >>)

process_clean_event(data) ==
    IF ~IsDict(data)
    THEN Outcome("process_clean_event", TRUE, <<>>, FALSE, NoState, <<>>)
    ELSE LET company_id == Get(data, "company_id", 0)
             logs == << LogEntry("debug", "Processing clean event",
                                 Get(data, "event_type", NullStr)) >>
         IN  IF company_id = 0
             THEN Outcome("process_clean_event", FALSE, logs, FALSE, NoState, <<>>)
             ELSE Outcome("process_clean_event", FALSE, logs, TRUE,
                          AgentState(company_id,
                                     Get(data, "company_data", EmptyDict),
                                     << data >>, <<>>),
                          << "enricher", "scorer" >>)

process_signal(data) ==
    IF ~IsDict(data)
    THEN Outcome("process_signal", TRUE, <<>>, FALSE, NoState, <<>>)
    ELSE LET signal_score == Get(data, "score", 0)
             first == << LogEntry("info", "Processing signal", "") >>
         IN  Outcome("process_signal", FALSE,
                     IF signal_score >= 80
                     THEN Append(first, LogEntry("info",
                                     "High-value signal detected", ""))
                     ELSE first,
                     FALSE, NoState, <<>>)

run_agent_playbook(data, logs) ==
    LET agent_type == Get(data, "agent_type", NullStr)
        input_data == Get(data, "input_data", EmptyDict)
        logs2 == Append(logs, LogEntry("info", "Running agent playbook", agent_type))
    IN  IF ~IsDict(input_data)
        THEN Outcome("process_action", TRUE, logs2, FALSE, NoState, <<>>)
        ELSE LET st == AgentState(Get(data, "company_id", 0),
                                  Get(input_data, "company_data", EmptyDict),
                                  Get(input_data, "events", <<>>),
                                  Get(input_data, "signals", <<>>))
             IN  IF agent_type \in AgentTypes
                 THEN Outcome("process_action", FALSE, logs2, TRUE, st,
                              << agent_type >>)
                 ELSE Outcome("process_action", FALSE,
                              Append(logs2, LogEntry("warning",
                                         "Unknown agent type", agent_type)),
                              TRUE, st, <<>>)

generate_proposal(data, logs) ==
    Outcome("process_action", FALSE,
            Append(logs, LogEntry("info", "Generating proposal", "")),
            TRUE,
            AgentState(Get(data, "company_id", 0),
                       Get(data, "company_data", EmptyDict),
                       Get(data, "events", <<>>),
                       Get(data, "signals", <<>>)),
            << "scorer", "proposer" >>)

sync_crm(data, logs) ==
    Outcome("process_action", FALSE,
            Append(logs, LogEntry("info", "CRM sync triggered",
                                  Get(data, "crm_type", NullStr))),
            FALSE, NoState, <<>>)

\* Mutant of action_branch: generate_proposal and crm_sync are swapped
action_branch_Swapped(action_type) ==
    CASE action_type = "run_agent"         -> "run_agent_playbook"
      [] action_type = "generate_proposal" -> "sync_crm"
      [] action_type = "crm_sync"          -> "generate_proposal"
      [] OTHER                             -> "none"

\* Mutant of action_branch: an action type that matches no branch is run as
\* an agent playbook
action_branch_Mutant(action_type) ==
    CASE action_type = "generate_proposal" -> "generate_proposal"
      [] action_type = "crm_sync"          -> "sync_crm"
      [] OTHER                             -> "run_agent_playbook"

\* process_action: the if/elif chain on action_type; it has no else branch
action_branch(action_type) ==
    CASE action_type = "run_agent"         -> "run_agent_playbook"
      [] action_type = "generate_proposal" -> "generate_proposal"
      [] action_type = "crm_sync"          -> "sync_crm"
      [] OTHER                             -> "none"

process_action(data) ==
    IF ~IsDict(data)
    THEN Outcome("process_action", TRUE, <<>>, FALSE, NoState, <<>>)
    ELSE LET action_type == Get(data, "action_type", NullStr)
             logs == << LogEntry("info", "Processing action", action_type) >>
             branch == action_branch(action_type)
         IN  CASE branch = "run_agent_playbook" -> run_agent_playbook(data, logs)
               [] branch = "generate_proposal"  -> generate_proposal(data, logs)
               [] branch = "sync_crm"           -> sync_crm(data, logs)
               [] OTHER -> Outcome("process_action", FALSE, logs, FALSE,
                                   NoState, <<>>)

\* process_message: the if/elif chain on the topic
route(topic, data) ==
    CASE topic = "raw.events"        -> process_raw_event(data)
      [] topic = "clean.events"      -> process_clean_event(data)
      [] topic = "signals.detected"  -> process_signal(data)
      [] topic = "actions.triggered" -> process_action(data)

\* Mutant of handler_fault: the exception leaves process_message and the
\* consumption loop with it
handler_fault_Mutant(logs) == [logs |-> logs, wpc |-> "crashed"]

\* process_message, the except clause: the fault is logged and the loop goes on
handler_fault(logs) ==
    [logs |-> Append(logs, LogEntry("error", "Error processing message", "")),
     wpc |-> "poll"]

\* The entries of one message, tagged with the message's number
Tagged(n, logs) == [i \in 1..Len(logs) |-> [msg |-> n, entry |-> logs[i]]]

\* for message in consumer: process_message(message), up to the handler's
\* first agent run or, when it makes none, to its end
Consume ==
    /\ wpc = "poll"
    /\ spc = "idle"
    /\ inbox # <<>>
    /\ LET m == Head(inbox)
           n == Len(consumed) + 1
           r == route(m.topic, m.value)
           first == << LogEntry("info", "Processing message", m.topic) >>
           f == handler_fault(first \o r.logs)
       IN  /\ inbox' = Tail(inbox)
           /\ consumed' = Append(consumed, m)
           /\ IF r.raised
              THEN /\ wlog' = wlog \o Tagged(n, f.logs)
                   /\ wpc' = f.wpc
              ELSE /\ wlog' = wlog \o Tagged(n, first \o r.logs)
                   /\ wpc' = IF r.plan = <<>> THEN "poll" ELSE "handling"
           /\ plan' = IF r.raised THEN <<>> ELSE r.plan
           /\ handled' = Append(handled,
                  [handler |-> r.handler,
                   outcome |-> IF r.raised THEN "error"
                               ELSE IF r.plan = <<>> THEN "ok" ELSE "running",
                   created |-> r.created, stages |-> <<>>])
           /\ IF r.created
              THEN /\ state' = r.st
                   /\ hist' = <<>>
              ELSE UNCHANGED <<state, hist>>
    /\ UNCHANGED <<utcnow, stage, spc, fault, snap, begun, obs, llm, committed>>
    /\ UNCHANGED <<crawlVars, apiVars, jobVars>>

\* state = await self.<agent>.run(state): the handler's next agent run begins
WorkerRunStage ==
    /\ wpc = "handling"
    /\ plan # <<>>
    /\ BeginRun(Head(plan))
    /\ plan' = Tail(plan)
    /\ handled' = [handled EXCEPT ![Len(handled)].stages = Append(@, Head(plan))]
    /\ UNCHANGED <<inbox, consumed, wpc, wlog, committed>>

\* The handler's last agent run has returned: its closing log entry
HandlerDone ==
    /\ wpc = "handling"
    /\ plan = <<>>
    /\ spc = "idle"
    /\ LET n == Len(consumed)
           m == consumed[n]
           closing ==
               IF m.topic = "clean.events"
               THEN << LogEntry("info", "Event processed", "") >>
               ELSE IF m.value["action_type"] = "run_agent"
               THEN << LogEntry("info", "Agent playbook completed",
                                m.value["agent_type"]) >>
               ELSE IF state.proposal # EmptyDict
               THEN << LogEntry("info", "Proposal generated", "") >>
               ELSE <<>>
       IN  wlog' = wlog \o Tagged(n, closing)
    /\ wpc' = "poll"
    /\ handled' = [handled EXCEPT ![Len(handled)].outcome = "ok"]
    /\ UNCHANGED <<inbox, consumed, plan, committed>>
    /\ UNCHANGED <<agentVars, crawlVars, apiVars, jobVars>>

WorkerInit ==
    /\ CrawlInit
    /\ ApiParked
    /\ JobParked
    /\ AgentIdle
    /\ llm \in BOOLEAN
    /\ state = NoState
    /\ snap = state
    /\ begun = [state |-> state, at |-> NullNum]
    /\ inbox \in SeqsUpTo(MsgChoices, MaxMsgs)
    /\ consumed = <<>>
    /\ wpc = "poll"
    /\ plan = <<>>
    /\ wlog = <<>>
    /\ handled = <<>>
    /\ committed = 0

WorkerNext ==
    \/ Consume
    \/ WorkerRunStage
    \/ PreExecute(FALSE)
    \/ \E c \in EnvChoices : Execute(FALSE, c)
    \/ PostExecute(FALSE)
    \/ Except
    \/ HandlerDone

SpecWorker == WorkerInit /\ [][WorkerNext]_vars

\* ----------------------------------------------------------- KafkaConsumer
\* enable_auto_commit=True: a poll for the next message commits the position
\* of the consumer, which stands behind the last message the iterator
\* delivered, when the commit interval has passed
AutoCommit ==
    /\ wpc = "poll"
    /\ committed < Len(consumed)
    /\ committed' = Len(consumed)
    /\ UNCHANGED <<inbox, consumed, wpc, plan, wlog, handled>>
    /\ UNCHANGED <<agentVars, crawlVars, apiVars, jobVars>>

\* An exception that `except Exception` does not catch (KeyboardInterrupt,
\* SystemExit, CancelledError) is raised while a handler awaits an agent run:
\* it leaves process_message and the loop, and the finally clause closes the
\* consumer, which commits its position
Interrupt ==
    /\ wpc = "handling"
    /\ wpc' = "closed"
    /\ spc' = "aborted"
    /\ committed' = Len(consumed)
    /\ UNCHANGED <<inbox, consumed, plan, wlog, handled>>
    /\ UNCHANGED <<utcnow, state, stage, fault, snap, begun, obs, hist, llm>>
    /\ UNCHANGED <<crawlVars, apiVars, jobVars>>

\* The process is killed while a handler awaits an agent run
Kill ==
    /\ wpc = "handling"
    /\ wpc' = "dead"
    /\ spc' = "aborted"
    /\ UNCHANGED <<inbox, consumed, plan, wlog, handled, committed>>
    /\ UNCHANGED <<utcnow, state, stage, fault, snap, begun, obs, hist, llm>>
    /\ UNCHANGED <<crawlVars, apiVars, jobVars>>

ConsumerNext ==
    \/ Consume
    \/ WorkerRunStage
    \/ PreExecute(FALSE)
    \/ \E c \in EnvChoices : Execute(FALSE, c)
    \/ PostExecute(FALSE)
    \/ Except
    \/ HandlerDone
    \/ AutoCommit
    \/ Interrupt
    \/ Kill

SpecConsumer == WorkerInit /\ [][ConsumerNext]_vars

CrawlNext ==
    \/ \E t \in Tasks, u \in Urls : FetchStart(t, u) /\ UNCHANGED jobVars
    \/ \E t \in Tasks, r \in RobotsResponses :
          RobotsReply(t, r) /\ UNCHANGED jobVars
    \/ \E t \in Tasks : SleepDone(t) /\ UNCHANGED jobVars
    \/ \E t \in Tasks, o \in GetOutcomes : HttpReply(t, o) /\ UNCHANGED jobVars
    \/ \E t \in Tasks : FetchMalformed(t) /\ UNCHANGED jobVars
    \/ Tick /\ UNCHANGED jobVars

AgentParked ==
    /\ AgentIdle
    /\ llm = FALSE
    /\ state = AgentState(1, EmptyDict, <<>>, <<>>)
    /\ snap = state
    /\ begun = [state |-> state, at |-> NullNum]

CrawlSpecInit ==
    /\ CrawlInit
    /\ ApiParked
    /\ JobParked
    /\ AgentParked
    /\ WorkerParked

SpecCrawl == CrawlSpecInit /\ [][CrawlNext]_vars

\* ============================================================ crawl_company
\* The coroutine crawl_company runs on
JobTask == 1

\* The scheme of the URLs fetched
Scheme == "https"

\* The href attributes a page may carry: a path ("/p3"), an absolute URL, a
\* scheme-relative URL ("//x.com/p1"), a mailto: address
PathHref(k) == [kind |-> "path", scheme |-> "", netloc |-> "", path |-> k]

AbsHref(scheme, netloc, k) ==
    [kind |-> "absolute", scheme |-> scheme, netloc |-> netloc, path |-> k]

\* urljoin(url, href), as a scheme, a host and a path
urljoin(url, href) ==
    CASE href.kind = "path" ->
             [scheme |-> Scheme, netloc |-> url.netloc, path |-> href.path]
      [] href.kind = "absolute" ->
             [scheme |-> href.scheme, netloc |-> href.netloc, path |-> href.path]
      [] href.kind = "scheme_relative" ->
             [scheme |-> Scheme, netloc |-> href.netloc, path |-> href.path]
      [] href.kind = "mailto" ->
             [scheme |-> "mailto", netloc |-> "", path |-> 0]

\* Mutant of same_domain: links to every host are kept
same_domain_Mutant(full_url, domain) == TRUE

\* urlparse(full_url).netloc == domain
same_domain(full_url, domain) == full_url.netloc = domain

\* fetch_url, "links": the hrefs joined to the URL, those of the same host
\* kept, made unique and cut to max_links; reversed: the order in which the
\* set iterates
extract_links(url, hrefs, reversed) ==
    LET joined == [i \in 1..Len(hrefs) |-> urljoin(url, hrefs[i])]
        links == { joined[i] : i \in { j \in 1..Len(hrefs) :
                                        same_domain(joined[j], url.netloc) } }
        listed == IF reversed THEN Reverse(SetToSeq(links)) ELSE SetToSeq(links)
    IN  SubSeq(listed, 1, Min(Len(listed), max_links))

\* The pages a GET may return: their hrefs and the length of their text
Pages ==
    { [hrefs |-> << PathHref(1) >>, text_len |-> 0],
      [hrefs |-> [i \in 1..max_links |-> PathHref(i)]
                   \o << PathHref(1), AbsHref("https", "x.com", 1),
                         AbsHref("https", "other.org", 1),
                         [kind |-> "mailto", scheme |-> "", netloc |-> "", path |-> 0] >>,
       text_len |-> max_text],
      [hrefs |-> [i \in 1..(max_links + 1) |-> PathHref(i)]
                   \o << AbsHref("ftp", "y.com", 2),
                         [kind |-> "scheme_relative", scheme |-> "",
                          netloc |-> "x.com", path |-> 2],
                         AbsHref("https", "X.com", 3) >>,
       text_len |-> max_text + 1] }

\* The result fetch_url returns for a page
FetchResult(url, page, reversed) ==
    [url |-> url,
     text_len |-> Min(page.text_len, max_text),
     links |-> extract_links(url, page.hrefs, reversed),
     content_length |-> page.text_len]

\* crawl_company, the loop: the next fetch_url call, up to its first
\* suspension; a URL that urlparse rejects raises out of fetch_url and out of
\* crawl_company
JobFetch ==
    /\ jpc = "running"
    /\ pc[JobTask] = "idle"
    /\ Len(calls) < Len(job)
    /\ LET u == job[Len(calls) + 1]
       IN  IF u = MalformedUrl
           THEN FetchMalformed(JobTask) /\ jpc' = "raised"
           ELSE FetchStart(JobTask, u) /\ jpc' = jpc
    /\ UNCHANGED <<job, sent>>

\* The GET of the current fetch_url ends and fetch_url returns: a result
\* without "error" is sent to raw.events
JobReply(outcome, page, reversed) ==
    /\ jpc = "running"
    /\ HttpReply(JobTask, outcome)
    /\ sent' = IF outcome = "ok"
               THEN Append(sent,
                        [topic |-> "raw.events", event_type |-> "web_crawl",
                         company_id |-> 1, call |-> cur[JobTask],
                         data |-> FetchResult(calls[cur[JobTask]].url, page,
                                              reversed)])
               ELSE sent
    /\ UNCHANGED <<job, jpc>>

\* The loop is over: "Company crawl completed"
JobDone ==
    /\ jpc = "running"
    /\ pc[JobTask] = "idle"
    /\ Len(calls) = Len(job)
    /\ jpc' = "done"
    /\ UNCHANGED <<job, sent>>
    /\ UNCHANGED <<crawlVars, agentVars, workerVars, apiVars>>

\* crawl_company(1, domain, urls) has been called
JobInit ==
    /\ CrawlInit
    /\ ApiParked
    /\ AgentParked
    /\ WorkerParked
    /\ job \in SeqsUpTo(Urls \cup {MalformedUrl}, MaxUrls)
    /\ jpc = "running"
    /\ sent = <<>>

JobNext ==
    \/ JobFetch
    \/ \E r \in RobotsResponses : RobotsReply(JobTask, r) /\ UNCHANGED jobVars
    \/ SleepDone(JobTask) /\ UNCHANGED jobVars
    \/ \E o \in GetOutcomes, page \in Pages, reversed \in BOOLEAN :
          JobReply(o, page, reversed)
    \/ JobDone
    \/ Tick /\ UNCHANGED jobVars

SpecJob == JobInit /\ [][JobNext]_vars

\* ============================================================ signals router
\* The companies table, and the company ids requests may name
Companies == {1}

CompanyIds == {1, 2}

\* timestamp_start, and timestamp_end (NullNum: None), of a create request
StartTimes == {1, 2}

EndTimes == {NullNum, 1, 2}

\* The bodies PATCH requests may carry: the fields that are set
SignalPatches ==
    { [actioned |-> FALSE],
      [actioned |-> TRUE],
      [is_active |-> FALSE, score |-> 10] }

ActionTypes == {"generate_proposal", "crm_sync"}

\* Signal(...) as create_signal builds it
NewSignal(cid, ts, te) ==
    [company_id |-> cid, timestamp_start |-> ts, timestamp_end |-> te,
     score |-> 80, is_active |-> TRUE, actioned |-> FALSE,
     action_taken |-> NullStr]

\* POST /signals/: 404 when the company does not exist; else the row is stored,
\* indexed (index_document swallows a failure) and published (publish
\* swallows a failure)
create_signal(cid, ts, te, indexed, published) ==
    /\ requests < MaxRequests
    /\ Len(signals_db) < MaxRows
    /\ requests' = requests + 1
    /\ IF cid \notin Companies
       THEN UNCHANGED <<signals_db, search_index, api_out>>
       ELSE LET id == Len(signals_db) + 1
            IN  /\ signals_db' = Append(signals_db, NewSignal(cid, ts, te))
                /\ search_index' =
                      IF indexed
                      THEN Append(search_index, [id |-> id, actioned |-> FALSE])
                      ELSE search_index
                /\ api_out' =
                      IF published
                      THEN Append(api_out, [topic |-> "signals.detected",
                                            signal_id |-> id,
                                            action_type |-> NullStr])
                      ELSE api_out
    /\ UNCHANGED <<crawlVars, agentVars, workerVars, jobVars>>

\* PATCH /signals/{id}: 404 when there is no such signal; else every field the
\* body sets is written to the row
update_signal(id, patch) ==
    /\ requests < MaxRequests
    /\ requests' = requests + 1
    /\ IF id > Len(signals_db)
       THEN UNCHANGED signals_db
       ELSE signals_db' = [signals_db EXCEPT ![id] = Update(@, patch)]
    /\ UNCHANGED <<search_index, api_out>>
    /\ UNCHANGED <<crawlVars, agentVars, workerVars, jobVars>>

\* POST /signals/{id}/action: 404 when there is no such signal; else the
\* action is published (publish swallows a failure) and the row is marked
trigger_signal_action(id, action_type, published) ==
    /\ requests < MaxRequests
    /\ requests' = requests + 1
    /\ IF id > Len(signals_db)
       THEN UNCHANGED <<signals_db, api_out>>
       ELSE /\ api_out' =
                  IF published
                  THEN Append(api_out, [topic |-> "actions.triggered",
                                        signal_id |-> id,
                                        action_type |-> action_type])
                  ELSE api_out
            /\ signals_db' = [signals_db EXCEPT ![id].actioned = TRUE,
                                                ![id].action_taken = action_type]
    /\ UNCHANGED search_index
    /\ UNCHANGED <<crawlVars, agentVars, workerVars, jobVars>>

ApiInit ==
    /\ CrawlInit
    /\ ApiParked
    /\ JobParked
    /\ AgentParked
    /\ WorkerParked

ApiNext ==
    \/ \E cid \in CompanyIds, ts \in StartTimes, te \in EndTimes,
          indexed \in BOOLEAN, published \in BOOLEAN :
          create_signal(cid, ts, te, indexed, published)
    \/ \E id \in 1..MaxRows, patch \in SignalPatches : update_signal(id, patch)
    \/ \E id \in 1..MaxRows, a \in ActionTypes, published \in BOOLEAN :
          trigger_signal_action(id, a, published)

SpecApi == ApiInit /\ [][ApiNext]_vars

\* ------------------------------------------------------- signals properties
\* The action messages published for signal id
ActionsFor(id) ==
    Cardinality({ k \in 1..Len(api_out) :
                    /\ api_out[k].topic = "actions.triggered"
                    /\ api_out[k].signal_id = id })

\* C19: a signal's actioned flag goes from false to true once and stays: no
\* request takes it back to false, and no action is published for a signal
\* that is already actioned.
C19_ActionedOnce ==
    [][\A id \in 1..Len(signals_db) :
          signals_db[id].actioned =>
              /\ signals_db'[id].actioned
              /\ ActionsFor(id)' = ActionsFor(id)]_vars

\* C20: every stored signal that has a timestamp_end has it at or after its
\* timestamp_start.
C20_EndNotBeforeStart ==
    \A id \in 1..Len(signals_db) :
        signals_db[id].timestamp_end # NullNum =>
            signals_db[id].timestamp_end >= signals_db[id].timestamp_start

\* ------------------------------------------------------ crawler properties
CallIds == 1..Len(calls)

\* The verdict of the ruleset a call consulted on the call's URL
Verdict(c) == RulesetDecision(c.parser.entries, user_agent, c.url.path)

\* C1: concurrent throttle calls for one domain are serialized: the fetches
\* of a domain are dispatched one at a time, so no two calls for one domain
\* return from rate_limit less than delay_seconds apart.
C1_ThrottleSerialized ==
    \A i, j \in CallIds :
        (/\ i < j
         /\ calls[i].url.netloc = calls[j].url.netloc
         /\ calls[i].returned # NoTime /\ calls[j].returned # NoTime)
        => \/ calls[j].returned - calls[i].returned >= delay_seconds
           \/ calls[i].returned - calls[j].returned >= delay_seconds

\* C2: a throttle call that starts less than delay_seconds after the
\* domain's recorded timestamp is suspended for at least the remainder
\* before it returns; a first call for the domain, or a call after the
\* interval has elapsed, returns without suspending.
C2_ThrottleSuspends ==
    \A i \in CallIds :
        LET c == calls[i] IN
        c.returned # NoTime =>
            IF c.prev # NoTime /\ c.entered - c.prev < delay_seconds
            THEN c.returned - c.entered >= delay_seconds - (c.entered - c.prev)
            ELSE c.returned = c.entered

\* Witness of C2: a call found the timestamp younger than the interval, was
\* suspended and has returned; another returned without suspending.
C2_Witness ==
    /\ \E i \in CallIds :
          /\ calls[i].prev # NoTime
          /\ calls[i].entered - calls[i].prev < delay_seconds
          /\ calls[i].returned > calls[i].entered
    /\ \E i \in CallIds :
          /\ calls[i].prev # NoTime
          /\ calls[i].returned = calls[i].entered

C4_RobotsFailOpen ==
    \A i \in CallIds :
        LET c == calls[i] IN
        (c.allowed # "none" /\ ~c.parser.last_checked)
            => c.allowed = "yes" /\ c.result # "blocked_by_robots_txt"

\* ------------------------------------------------------- BaseAgent properties
Occurrences(seq, x) == Cardinality({ i \in 1..Len(seq) : seq[i] = x })

\* A run of a stage has returned after one of its three calls raised
ReturnedAfterFault == spc = "idle" /\ fault # NoFault

\* C5: a fault raised in pre_execute, execute or post_execute of any stage is
\* caught once by run: the state run returns is the state as the fault left
\* it with exactly one entry "<stage>: <message>" appended to its errors, the
\* failure is logged once, and the fault never leaves run.
C5_FaultCaughtOnce ==
    /\ spc # "propagated"
    /\ ReturnedAfterFault =>
          /\ state = [snap EXCEPT !.errors =
                         Append(@, ErrorEntry(stage, fault.msg))]
          /\ Occurrences(obs, "agent_execution_failed") = 1
          /\ hist # <<>>
          /\ hist[Len(hist)].stage = stage

\* A scorer run whose execute raised after pre_execute had written the start
\* time has returned, with the one error entry in the state
C5_Witness ==
    /\ ReturnedAfterFault
    /\ stage = "scorer"
    /\ fault.hook = "execute"
    /\ fault.msg = "TypeError"
    /\ StartKey(stage) \in DOMAIN state.metadata
    /\ state.errors = << ErrorEntry("scorer", "TypeError") >>

\* C6: when execute of a stage raises, post_execute still takes place: the
\* end time is in the metadata of the returned state and "agent_completed"
\* was logged.
C6_AfterStillRuns ==
    (ReturnedAfterFault /\ fault.hook = "execute") =>
        /\ EndKey(stage) \in DOMAIN state.metadata
        /\ Occurrences(obs, "agent_completed") = 1

\* ----------------------------------------------------- WorkerService properties
HandlerOf(topic) ==
    CASE topic = "raw.events"        -> "process_raw_event"
      [] topic = "clean.events"      -> "process_clean_event"
      [] topic = "signals.detected"  -> "process_signal"
      [] topic = "actions.triggered" -> "process_action"

\* The log entries of message n, in order
LogOf(n) ==
    LET idx == { i \in 1..Len(wlog) : wlog[i].msg = n }
        F[k \in 0..Len(wlog)] ==
            IF k = 0 THEN <<>>
            ELSE IF k \in idx THEN Append(F[k - 1], wlog[k].entry) ELSE F[k - 1]
    IN  F[Len(wlog)]

ErrorsLogged(n) ==
    Cardinality({ i \in 1..Len(wlog) :
                    wlog[i].msg = n /\ wlog[i].entry.level = "error" })

\* The payload makes its handler raise
Malformed(m) ==
    \/ ~IsDict(m.value)
    \/ /\ m.topic = "actions.triggered"
       /\ Get(m.value, "action_type", NullStr) = "run_agent"
       /\ ~IsDict(Get(m.value, "input_data", EmptyDict))

\* C7: every delivered message went to the handler of its topic; a handler's
\* fault is logged once, for its own message and for no other, and ends that
\* message only: the loop never crashes and stands ready for the next message.
C7_RoutedAndIsolated ==
    /\ wpc # "crashed"
    /\ Len(handled) = Len(consumed)
    /\ \A i \in 1..Len(handled) :
          /\ handled[i].handler = HandlerOf(consumed[i].topic)
          /\ (handled[i].outcome = "error") = Malformed(consumed[i])
          /\ ErrorsLogged(i) = IF Malformed(consumed[i]) THEN 1 ELSE 0
          /\ i < Len(handled) => handled[i].outcome \in {"ok", "error"}
    /\ (wpc = "poll" /\ handled # <<>>) =>
          handled[Len(handled)].outcome \in {"ok", "error"}

\* A message whose handler raised was followed by a message that was handled
\* to its end, agent runs included
C7_Witness ==
    /\ Len(handled) = 2
    /\ handled[1].outcome = "error"
    /\ handled[2].outcome = "ok"
    /\ handled[2].stages # <<>>
    /\ ErrorsLogged(1) = 1

KnownActions == {"run_agent", "generate_proposal", "crm_sync"}

UnknownAction(m) ==
    /\ m.topic = "actions.triggered"
    /\ IsDict(m.value)
    /\ Get(m.value, "action_type", NullStr) \notin KnownActions

\* C8 as stated: a message with an unknown action type is logged as unknown,
\* by an entry that says its action type is not a known one.
C8_LoggedAsUnknown ==
    \A i \in 1..Len(handled) :
        UnknownAction(consumed[i]) =>
            \E k \in 1..Len(wlog) :
                /\ wlog[k].msg = i
                /\ \/ wlog[k].entry.level = "warning"
                   \/ wlog[k].entry.event = "Unknown action type"

\* C8: a message with an unknown action type is consumed and dropped; the
\* only log entries it leaves are the two every action message leaves,
\* "Processing message" and "Processing action" with its action type; no
\* state is created, no stage runs, the loop does not crash and stands ready
\* for the next message.
C8_UnknownActionDropped ==
    /\ wpc # "crashed"
    /\ \A i \in 1..Len(handled) :
          UnknownAction(consumed[i]) =>
              /\ handled[i] = [handler |-> "process_action", outcome |-> "ok",
                               created |-> FALSE, stages |-> <<>>]
              /\ LogOf(i) =
                    << LogEntry("info", "Processing message", "actions.triggered"),
                       LogEntry("info", "Processing action",
                                Get(consumed[i].value, "action_type", NullStr)) >>
              /\ (i = Len(handled) => wpc = "poll" /\ plan = <<>>)

\* A message with an unknown action type was consumed, and the message after
\* it was handled to its end by an agent run
C8_Witness ==
    /\ Len(handled) = 2
    /\ UnknownAction(consumed[1])
    /\ state # NoState
    /\ handled[2].outcome = "ok"
    /\ handled[2].stages # <<>>

\* --------------------------------------------------------- scorer properties
\* The scorer's execute has stored all of its scores in the returned state
Scored ==
    /\ spc = "idle"
    /\ stage = "scorer"
    /\ fault = NoFault
    /\ state.company_data # EmptyDict

\* C9: when the scorer has computed scores, the stored fit, intent, timing
\* and overall each lie in [0, 100] and the stored overall is
\* round(0.4 * fit + 0.4 * intent + 0.2 * timing, 2) of the stored three.
C9_ScoresBounded ==
    Scored =>
        LET sc == state.scores
        IN  /\ \A k \in {"fit", "intent", "timing", "overall"} :
                  k \in DOMAIN sc /\ 0 <= sc[k] /\ sc[k] <= Pts(100)
            /\ sc["overall"] =
                  RoundTo(4 * sc["fit"] + 4 * sc["intent"] + 2 * sc["timing"], 100)
                      \div 10

\* A company was scored with fit, intent and timing that all differ and are
\* neither 0 nor 100
C9_Witness ==
    /\ Scored
    /\ state.scores["intent"] = 17500
    /\ state.scores["fit"] = Pts(90)
    /\ state.scores["timing"] = Pts(100)
    /\ state.scores["overall"] = Pts(63)

\* C10: two scorer runs in a row on the same company data, events and signals
\* at the same time leave the same scores, whatever was stored before.
C10_ScoringIdempotent ==
    \A i \in 1..(Len(hist) - 1) :
        (/\ hist[i].stage = "scorer"
         /\ hist[i + 1].stage = "scorer"
         /\ hist[i].company_data = hist[i + 1].company_data
         /\ hist[i].events = hist[i + 1].events
         /\ hist[i].signals = hist[i + 1].signals
         /\ hist[i].at = hist[i + 1].at)
        => hist[i].scores = hist[i + 1].scores

\* The scorer ran twice at the same time on a state that carried other scores
\* before, and stored a nonzero overall both times
C10_Witness ==
    /\ Len(hist) = 2
    /\ hist[1].at = hist[2].at
    /\ hist[1].scores = hist[2].scores
    /\ "champ_qualified" \in DOMAIN hist[2].scores
    /\ hist[2].scores["overall"] > 0
    /\ hist[2].scores["overall"] # Pts(50)
    /\ begun.state.scores # EmptyDict

\* ------------------------------------------------------ scorer: fixed cases
\* Employee counts on both sides of every bracket boundary
SizeCases == {0, 1, 20, 49, 50, 100, 199, 200, 300, 5000, 5001, 10000, 10001}

\* Companies of which only the employee count matters: absent, null, or given
SizeCompanies ==
    { [name |-> "Acme"], [employee_count |-> NullNum] }
        \cup { [employee_count |-> e] : e \in SizeCases }

ScenarioCompany ==
    [industry |-> "fintech", employee_count |-> 1200,
     tech_stack |-> <<"aws", "kubernetes">>, total_funding |-> 5000000,
     revenue |-> "10M"]

ScenarioEvents ==
    << [event_type |-> "web_crawl", timestamp |-> DaysAgo(1)],
       [event_type |-> "web_crawl", timestamp |-> DaysAgo(2)],
       [event_type |-> "news",      timestamp |-> DaysAgo(3)] >>

ScenarioSignals ==
    << [kind |-> "tech_adoption", score |-> 50, timestamp_start |-> DaysAgo(10)] >>

CasesInit ==
    /\ CrawlInit
    /\ ApiParked
    /\ JobParked
    /\ WorkerParked
    /\ AgentIdle
    /\ llm = FALSE
    /\ \E sc \in StoredScores :
          \/ \E cd \in SizeCompanies :
                state = [AgentState(1, cd, <<>>, <<>>) EXCEPT !.scores = sc]
          \/ state = [AgentState(1, ScenarioCompany, ScenarioEvents,
                                 ScenarioSignals) EXCEPT !.scores = sc]
    /\ snap = state
    /\ begun = [state |-> state, at |-> NullNum]

SpecCases == CasesInit /\ [][ScoreNext]_vars

\* The documented size bonus: unknown (absent or null) counts as zero
DocumentedSize(cd) ==
    LET e == Get(cd, "employee_count", 0)
    IN  IF 200 <= e /\ e <= 5000 THEN 30
        ELSE IF (50 <= e /\ e <= 199) \/ (5001 <= e /\ e <= 10000) THEN 20
        ELSE IF e > 0 THEN 10
        ELSE 0

\* A scorer run has returned on a company of which only the size can score
SizeOnlyRun ==
    /\ spc = "idle"
    /\ stage = "scorer"
    /\ state.company_data \in SizeCompanies

\* C11: for every employee count, zero, absent and null included, scoring
\* completes and the size component (the whole fit score of a company with
\* no other scoring attribute) is the documented bracket value.
C11_SizeBrackets ==
    SizeOnlyRun =>
        /\ fault = NoFault
        /\ "fit" \in DOMAIN state.scores
        /\ state.scores["fit"] = Pts(DocumentedSize(state.company_data))

\* The scorer has scored the scenario while its three events were all within
\* the last 7 days
ScenarioScored ==
    /\ Scored
    /\ state.company_data = ScenarioCompany
    /\ state.events = ScenarioEvents
    /\ state.signals = ScenarioSignals
    /\ \A i \in 1..Len(state.events) :
          state.events[i].timestamp.day > begun.at - 7

\* C12: the scenario company (1200 employees, fintech, aws and kubernetes,
\* funding and revenue, three recent non-hiring events, one tech_adoption
\* signal) is scored fit 90, intent 12.5, timing 100, overall 61.0.
C12_Scenario ==
    ScenarioScored =>
        /\ state.scores["fit"] = Pts(90)
        /\ state.scores["intent"] = 12500
        /\ state.scores["timing"] = Pts(100)
        /\ state.scores["overall"] = Pts(61)

\* The scenario was scored, a day after the state was built
C12_Witness ==
    /\ ScenarioScored
    /\ begun.at = Today + 1
    /\ state.scores["overall"] = Pts(61)
    /\ StartKey("scorer") \in DOMAIN state.metadata

IsPrefix(a, b) == Len(a) <= Len(b) /\ SubSeq(b, 1, Len(a)) = a

\* C13: state.errors is append-only: in every step of every stage's run,
\* faulting or not, the error list before the step is a prefix of the error
\* list after it.
C13_ErrorsAppendOnly == [][IsPrefix(state.errors, state'.errors)]_vars

\* Two runs of different stages have each left an entry in state.errors, the
\* second behind the first
C13_Witness ==
    /\ spc = "idle"
    /\ Len(hist) = 2
    /\ hist[1].stage # hist[2].stage
    /\ Len(state.errors) = 2
    /\ state.errors[1].tag = hist[1].stage
    /\ state.errors[2].tag = ""

\* Message i is a clean.events message for which the handler built a state
CleanRun(i) == consumed[i].topic = "clean.events" /\ handled[i].created

RawEvent(i) == consumed[i].topic = "raw.events" /\ IsDict(consumed[i].value)

\* The worker has nothing left to do: no message waits, no handler runs
Quiescent == wpc = "poll" /\ inbox = <<>> /\ spc = "idle"

\* C15: every raw event the worker consumed is routed to the enricher and
\* then to the scorer: once the worker has nothing left to do, both stages
\* have run for it.
C15_RawEventsFlow ==
    Quiescent =>
        \A i \in 1..Len(handled) :
            RawEvent(i) => handled[i].stages = << "enricher", "scorer" >>

\* ----------------------------------------------------- consumer properties
\* C16: a message is committed only after its handler has returned, with or
\* without a caught fault; a message whose handler was cut short by a crash
\* is not committed, so it is delivered again.
C16_CommitAfterReturn ==
    \A n \in 1..committed : handled[n].outcome \in {"ok", "error"}

\* ------------------------------------------------- crawler properties, cont.
\* What fetch_url may hand to its caller: a result, or one of the error kinds
FetchReturns == {"ok", "blocked_by_robots_txt", "http_error", "timeout", "other"}

\* C17: fetch_url never raises to its caller: every call that has ended
\* returned a result or an error of kind blocked, http_error, timeout or
\* other.
C17_FetchNeverRaises ==
    \A i \in CallIds :
        calls[i].result # "none" => calls[i].result \in FetchReturns

\* A first reference to domain d is in flight: a call awaits its /robots.txt
FirstRefPending(d) ==
    \E t \in Tasks : pc[t] = "robots" /\ calls[cur[t]].url.netloc = d

\* Domain d has its cache entry and no first reference to it is in flight
Settled(d) == ~robots_cache[d].absent /\ ~FirstRefPending(d)

ReturnedClean(a) == spc = "idle" /\ hist # <<>> /\ stage = a /\ fault = NoFault

\* C21: with no text-generation backend, a finished Enrichment or Proposal run
\* on a company leaves the proposal and the error list as they were and has
\* recorded a warning on the run.
C21_NoBackendDegrades ==
    (~llm /\ begun.state.company_data # EmptyDict
          /\ (ReturnedClean("enricher") \/ ReturnedClean("proposer"))) =>
        /\ state.proposal = begun.state.proposal
        /\ state.errors = begun.state.errors
        /\ Len(state.warnings) > Len(begun.state.warnings)

\* -------------------------------------------------- throttle independence
\* C22: domains are throttled independently: a step writes the timestamp of
\* one domain at most, the domain of the call that is dispatched, and a call
\* is suspended in rate_limit only when its own domain's timestamp is younger
\* than delay_seconds.
C22_DomainsIndependent ==
    [][LET DomainOf(t) == calls'[cur'[t]].url.netloc IN
       /\ \A d \in Domains :
             last_crawl_times'[d] # last_crawl_times[d] =>
                 \E t \in Tasks :
                     /\ pc[t] # "get" /\ pc'[t] = "get"
                     /\ DomainOf(t) = d
       /\ \A t \in Tasks :
             (pc[t] # "sleep" /\ pc'[t] = "sleep") =>
                 /\ last_crawl_times[DomainOf(t)] # NoTime
                 /\ now - last_crawl_times[DomainOf(t)] < delay_seconds]_vars

\* Witness of C22: calls for two domains were dispatched less than
\* delay_seconds apart, neither suspended, while a call for one of the two
\* domains was suspended behind the earlier dispatch to its own domain.
C22_Witness ==
    \E i, j, k \in CallIds :
        /\ calls[i].url.netloc # calls[j].url.netloc
        /\ calls[i].returned # NoTime /\ calls[j].returned # NoTime
        /\ calls[i].returned = calls[i].entered
        /\ calls[j].returned = calls[j].entered
        /\ calls[j].returned - calls[i].returned < delay_seconds
        /\ calls[j].returned >= calls[i].returned
        /\ calls[k].url.netloc = calls[i].url.netloc
        /\ calls[k].prev # NoTime
        /\ calls[k].returned > calls[k].entered

\* ------------------------------------------------- intent and timing inputs
\* [x] * n
Repeat(x, n) == [i \in 1..n |-> x]

\* Event lists for the intent score: n recent job postings, alone or followed
\* by a stale job posting, a recent crawl and a recent careers page
IntentEvents ==
    { Repeat([event_type |-> "job_posting", timestamp |-> DaysAgo(3)], n) \o tail :
        n \in {0, 1, MaxHiring - 1, MaxHiring},
        tail \in { <<>>,
                   << [event_type |-> "job_posting", timestamp |-> DaysAgo(40)],
                      [event_type |-> "web_crawl",   timestamp |-> DaysAgo(2)],
                      [event_type |-> "careers",     timestamp |-> DaysAgo(5)],
                      [event_type |-> "careers"] >> } }

SignalOf(kind) == [kind |-> kind, score |-> 50, timestamp_start |-> DaysAgo(10)]

\* Signal lists for the intent score, by the number of signals of each kind
IntentSignals ==
    { Repeat(SignalOf("tech_adoption"), t) \o Repeat(SignalOf(k[1]), f)
        \o Repeat(SignalOf(k[2]), x) \o Repeat(SignalOf("pain_point"), p)
        \o Repeat(SignalOf("hiring_spike"), o) :
        t \in 0..MaxKind, f \in 0..2, x \in 0..MaxKind, p \in 0..MaxKind,
        o \in 0..1,
        k \in { <<"funding_event", "expansion">>,
                <<"budget_event", "product_launch">> } }

\* Event lists for the timing score, by the number of events of each age
\* (in days), with and without an event that has no timestamp
TimingEvents ==
    { Repeat([event_type |-> "news", timestamp |-> DaysAgo(3)], a)
        \o Repeat([event_type |-> "news", timestamp |-> DaysAgo(60)], c)
        \o Repeat([event_type |-> "news", timestamp |-> DaysAgo(20)], b)
        \o Repeat([event_type |-> "news", timestamp |-> DaysAgo(100)], d)
        \o Repeat([event_type |-> "news"], n) :
        a \in 0..1, b \in 0..2, c \in 0..MaxKind, d \in 0..1, n \in 0..1 }

RulesInit ==
    /\ CrawlInit
    /\ ApiParked
    /\ JobParked
    /\ WorkerParked
    /\ AgentIdle
    /\ llm = FALSE
    /\ \/ \E evs \in IntentEvents, sigs \in IntentSignals :
             state = AgentState(1, ScenarioCompany, evs, sigs)
       \/ \E evs \in TimingEvents :
             state = AgentState(1, ScenarioCompany, evs, <<>>)
       \/ state = AgentState(1, ScenarioCompany,
                             << [event_type |-> "news", timestamp |-> Aware(Today)] >>,
                             <<>>)
    /\ snap = state
    /\ begun = [state |-> state, at |-> NullNum]

SpecRules == RulesInit /\ [][ScoreNext]_vars

\* ------------------------------------------------------- scoring formulas

\* The documented intent score, in thousandths, from the five counts
DocumentedIntent(h, t, f, x, p) ==
    Min(Pts(100),
        Min(Pts(30), h * 5000) + Min(Pts(25), t * 12500)
          + (IF f >= 1 THEN Pts(20) ELSE 0)
          + Min(Pts(15), x * 7500) + Min(Pts(10), p * 5000))

\* The events of the state that lie in the last `days` days at the time
\* execute ran
InLast(days) ==
    { i \in 1..Len(state.events) :
        /\ "timestamp" \in DOMAIN state.events[i]
        /\ state.events[i].timestamp.kind = "naive"
        /\ state.events[i].timestamp.day > begun.at - days }

\* The signals of the state whose kind is one of K
OfKind(K) ==
    { i \in 1..Len(state.signals) :
        "kind" \in DOMAIN state.signals[i] /\ state.signals[i].kind \in K }

\* C23: the intent score is min(100, min(30, 5h) + min(25, 12.5t) +
\* (20 if f >= 1) + min(15, 7.5x) + min(10, 5p)) with h the hiring-related
\* events of the last 30 days and t, f, x, p the signals of each kind.
C23_IntentFormula ==
    Scored =>
        state.scores["intent"] =
            DocumentedIntent(
                Cardinality({ i \in InLast(30) :
                    Get(state.events[i], "event_type", "")
                        \in {"job_posting", "careers"} }),
                Cardinality(OfKind({"tech_adoption"})),
                Cardinality(OfKind({"funding_event", "budget_event"})),
                Cardinality(OfKind({"expansion", "product_launch"})),
                Cardinality(OfKind({"pain_point"})))

\* Witness of C23: a state was scored in which every component is capped (more
\* than six recent hiring events, three signals of each capped kind) and the
\* intent score is 100; the list also held events that do not count.
C23_Witness ==
    /\ Scored
    /\ Len(state.events) > MaxHiring
    /\ Cardinality(OfKind({"tech_adoption"})) > 2
    /\ Cardinality(OfKind({"expansion", "product_launch"})) > 2
    /\ Cardinality(OfKind({"pain_point"})) > 2
    /\ state.scores["intent"] = Pts(100)

\* C24: the timing score is the recency component (50 / 35 / 20 / 0 by the
\* youngest window that holds an event) plus the velocity component (50 when
\* the events of the last 30 days outnumber those aged 31 to 90 days, else 25
\* when there is one in the last 30 days, else 0), and is at most 100.
C24_TimingFormula ==
    Scored =>
        LET n7  == Cardinality(InLast(7))
            n30 == Cardinality(InLast(30))
            older == Cardinality(InLast(90) \ InLast(30))
            recency == IF n7 > 0 THEN 50 ELSE IF n30 > 0 THEN 35
                       ELSE IF n30 + older > 0 THEN 20 ELSE 0
            velocity == IF n30 > older THEN 50 ELSE IF n30 > 0 THEN 25 ELSE 0
        IN  /\ state.scores["timing"] = Pts(recency + velocity)
            /\ state.scores["timing"] <= Pts(100)

\* Witness of C24: a state was scored whose youngest event is 20 days old and
\* whose events aged 31 to 90 days outnumber those of the last 30 days:
\* recency 35, velocity 25.
C24_Witness ==
    /\ Scored
    /\ InLast(7) = {}
    /\ InLast(30) # {}
    /\ Cardinality(InLast(90) \ InLast(30)) > Cardinality(InLast(30))
    /\ state.scores["timing"] = Pts(60)

\* C25: bant_qualified is true exactly when budget (funding > 0, or a revenue
\* that is neither absent nor empty), authority (employee count < 5000), need
\* (a signal) and timeline (a signal started in the last 90 days) all hold.
C25_BantRule ==
    Scored =>
        LET cd == state.company_data
            revenue == Get(cd, "revenue", NullStr)
            budget == Get(cd, "total_funding", 0) > 0
                          \/ (revenue # NullStr /\ revenue # "")
            authority == Get(cd, "employee_count", 0) < 5000
            need == state.signals # <<>>
            timeline ==
                \E i \in 1..Len(state.signals) :
                    LET ts == Get(state.signals[i], "timestamp_start", NoTs)
                    IN  ts.kind = "naive" /\ ts.day > begun.at - 90
        IN  state.scores["bant_qualified"]
                = (budget /\ authority /\ need /\ timeline)

\* C26: champ_qualified is true exactly when challenge (a pain_point or
\* hiring_spike signal), authority (employee count < 5000), money (funding
\* > 0) and prioritization (a signal scored above 75 that started in the last
\* 30 days) all hold.
C26_ChampRule ==
    Scored =>
        LET cd == state.company_data
            challenge ==
                \E i \in 1..Len(state.signals) :
                    Get(state.signals[i], "kind", "")
                        \in {"pain_point", "hiring_spike"}
            authority == Get(cd, "employee_count", 0) < 5000
            money == Get(cd, "total_funding", 0) > 0
            prioritization ==
                \E i \in 1..Len(state.signals) :
                    LET ts == Get(state.signals[i], "timestamp_start", NoTs)
                    IN  /\ Get(state.signals[i], "score", 0) > 75
                        /\ ts.kind = "naive" /\ ts.day > begun.at - 30
        IN  state.scores["champ_qualified"]
                = (challenge /\ authority /\ money /\ prioritization)

\* Witness of C26: one company was scored CHAMP-qualified, its pain_point
\* signal scored 80 and 29 days old.
C26_Witness ==
    /\ Scored
    /\ state.scores["champ_qualified"]
    /\ \E i \in 1..Len(state.signals) :
          /\ state.signals[i].kind = "pain_point"
          /\ state.signals[i].timestamp_start.day = begun.at - 29

\* An Enrichment run on a company with a known employee count has returned,
\* with a backend configured and no fault injected into its hooks
EnrichedWithBackend ==
    /\ spc = "idle" /\ hist # <<>> /\ stage = "enricher"
    /\ llm
    /\ begun.state.company_data # EmptyDict
    /\ ~categorize_raises(begun.state.company_data)
    /\ fault.msg \notin {"log failure", "stage failure"}

\* C27: deep enrichment never fails hard: whatever the text-generation call
\* answers (a failure, text that is not JSON, JSON that is not an object), no
\* stage fault is recorded and tech stack and category are still set.
C27_DeepEnrichmentSoft ==
    EnrichedWithBackend =>
        /\ fault = NoFault
        /\ state.errors = begun.state.errors
        /\ "tech_stack" \in DOMAIN state.company_data
        /\ "category" \in DOMAIN state.company_data

\* C28: through a run the state's event list is append-only: while a message
\* is being handled (or a stage is run on a state), every event already in
\* the list stays in its place and is not altered.
C28_EventsAppendOnly ==
    [][consumed' = consumed => IsPrefix(state.events, state'.events)]_vars

\* ------------------------------------------------------- stage envelope
\* The metadata keys specific to each stage: its two timestamps and what its
\* execute stores
StageKeys(a) ==
    CASE a = "discoverer" -> [start |-> "discoverer_start_time",
                              end   |-> "discoverer_end_time",
                              other |-> {"discovered_urls", "discovered_companies"}]
      [] a = "enricher"   -> [start |-> "enricher_start_time",
                              end   |-> "enricher_end_time", other |-> {}]
      [] a = "scorer"     -> [start |-> "scorer_start_time",
                              end   |-> "scorer_end_time", other |-> {}]
      [] a = "proposer"   -> [start |-> "proposer_start_time",
                              end   |-> "proposer_end_time", other |-> {}]

\* A run has returned and none of its hooks raised
NoHookFaulted == spc = "idle" /\ hist # <<>> /\ fault = NoFault

\* C29: on a run in which no hook faults, before, run and after are executed
\* once each in that order; afterwards the metadata holds the stage's start
\* and end timestamps under the stage's own keys, end >= start, and the keys
\* of the other stages are as they were.
C29_EnvelopeOrder ==
    NoHookFaulted =>
        LET keys == StageKeys(stage)
            md == state.metadata
            was == begun.state.metadata
        IN  /\ obs = << "agent_started", "agent_completed" >>
            /\ keys.start \in DOMAIN md /\ keys.end \in DOMAIN md
            /\ md[keys.start] <= begun.at
            /\ begun.at <= md[keys.end]
            /\ \A b \in AgentTypes \ {stage} :
                  \A k \in {StageKeys(b).start, StageKeys(b).end}
                              \cup StageKeys(b).other :
                      /\ k \in DOMAIN was => (k \in DOMAIN md /\ md[k] = was[k])
                      /\ k \in DOMAIN md => k \in DOMAIN was

\* Witness of C29: a second stage has run, a day after the first began, on
\* the state the first left, and both returned without a fault.
C29_Witness ==
    /\ NoHookFaulted
    /\ Len(hist) = 2
    /\ hist[1].stage # stage
    /\ StageKeys(hist[1].stage).end \in DOMAIN begun.state.metadata
    /\ state.metadata[StageKeys(stage).end]
          > state.metadata[StageKeys(hist[1].stage).start]
    /\ state.errors = <<>>

\* ------------------------------------------------------ action routing
\* Message i is an action message of the given type whose input_data, if it
\* has one, is an object
ActionOf(i, type) ==
    /\ consumed[i].topic = "actions.triggered"
    /\ IsDict(consumed[i].value)
    /\ Get(consumed[i].value, "action_type", NullStr) = type
    /\ IsDict(Get(consumed[i].value, "input_data", EmptyDict))

\* The handler of message i has returned without a fault
Finished(i) == handled[i].outcome = "ok"

C31_LinksBounded ==
    \A k \in 1..Len(sent) :
        LET r == sent[k].data
        IN  /\ \A i \in 1..Len(r.links) :
                  /\ r.links[i].scheme # ""
                  /\ r.links[i].netloc # ""
                  /\ r.links[i].netloc = r.url.netloc
            /\ \A i, j \in 1..Len(r.links) : i # j => r.links[i] # r.links[j]
            /\ Len(r.links) <= 50
            /\ r.text_len <= 10000

\* Witness of C31: a page with more than 50 links of its host, a link to
\* another host and more than 10,000 characters of text was fetched; the
\* result holds 50 links and 10,000 characters.
C31_Witness ==
    \E k \in 1..Len(sent) :
        /\ sent[k].data.content_length > 10000
        /\ sent[k].data.text_len = 10000
        /\ Len(sent[k].data.links) = 50
        /\ sent[k].data.url.netloc = "y.com"

\* ------------------------------------------------------ segment category
\* An Enrichment run on a company has returned and no hook raised
Enriched ==
    /\ spc = "idle" /\ hist # <<>> /\ stage = "enricher"
    /\ fault = NoFault
    /\ begun.state.company_data # EmptyDict

\* C32: after every successful Enrichment run the category is the one the
\* employee count gives: below 50 small_business, from 50 up to but not
\* including 500 mid_market, 500 or more enterprise.
C32_SegmentRule ==
    Enriched =>
        LET e == Get(state.company_data, "employee_count", 0)
        IN  /\ "category" \in DOMAIN state.company_data
            /\ e < 50 => state.company_data["category"] = "small_business"
            /\ (50 <= e /\ e < 500) =>
                   state.company_data["category"] = "mid_market"
            /\ e >= 500 => state.company_data["category"] = "enterprise"

\* Witness of C32: a company of exactly 50 employees was enriched as
\* mid_market.
C32_Witness ==
    /\ Enriched
    /\ Get(state.company_data, "employee_count", 0) = 50
    /\ state.company_data["category"] = "mid_market"

\* ------------------------------------------------- qualification flags
\* C33: on every state the Scoring stage completes on without a fault,
\* champ_qualified implies bant_qualified.
C33_ChampImpliesBant ==
    Scored => (state.scores["champ_qualified"] => state.scores["bant_qualified"])

\* Witness of C33: a company with funding and a recent pain_point signal
\* scored above 75 was scored CHAMP-qualified and BANT-qualified.
C33_Witness ==
    /\ Scored
    /\ state.scores["champ_qualified"]
    /\ state.scores["bant_qualified"]
    /\ Get(state.company_data, "total_funding", 0) > 0

\* ------------------------------------------------- runs without company data
\* An Enrichment or Scoring run on a state without company data has returned
RanOnNoData ==
    /\ spc = "idle" /\ hist # <<>> /\ stage \in {"enricher", "scorer"}
    /\ fault = NoFault
    /\ begun.state.company_data = EmptyDict

\* C34: Enrichment and Scoring on a state without company data append exactly
\* one error entry ("No company data to enrich" / "No company data to score")
\* and leave company data, events, signals and scores as they were.
C34_NoDataNoChange ==
    RanOnNoData =>
        /\ state.errors =
              Append(begun.state.errors,
                     [tag |-> "",
                      msg |-> IF stage = "enricher"
                              THEN "No company data to enrich"
                              ELSE "No company data to score"])
        /\ state.company_data = begun.state.company_data
        /\ state.events = begun.state.events
        /\ state.signals = begun.state.signals
        /\ state.scores = begun.state.scores

\* Witness of C34: the Scoring stage ran after the Enrichment stage on a state
\* without company data that carried scores from before; both entries are in
\* the error list and the scores are still there.
C34_Witness ==
    /\ RanOnNoData
    /\ stage = "scorer"
    /\ Len(state.errors) = 2
    /\ state.errors[1].msg = "No company data to enrich"
    /\ state.events # <<>>
    /\ "overall" \in DOMAIN state.scores

\* ------------------------------------------- concurrent first references
\* C35: /robots.txt is requested at most once per domain, also when two
\* tasks make the first reference to the domain concurrently: no two calls
\* for one domain have both fetched it.
C35_RobotsRequestedOnce ==
    \A i, j \in 1..Len(calls) :
        (i < j /\ calls[i].url.netloc = calls[j].url.netloc) =>
            ~(calls[i].robots_fetched /\ calls[j].robots_fetched)

\* ------------------------------------------------- last-dispatch timestamps
\* C36: a call that returns blocked_by_robots_txt leaves the per-domain
\* timestamps as they were; a call that passes the policy check has set its
\* domain's timestamp to the current time in the step that issues the HTTP
\* request, and the timestamp stays whichever way the request ends.
C36_TimestampOnDispatch ==
    [][\A i \in 1..Len(calls') :
          LET d     == calls'[i].url.netloc
              fresh == i > Len(calls)
          IN  /\ (/\ calls'[i].result = "blocked_by_robots_txt"
                  /\ (fresh \/ calls[i].result = "none"))
                    => last_crawl_times' = last_crawl_times
              /\ (calls'[i].get /\ (fresh \/ ~calls[i].get))
                    => /\ calls'[i].allowed = "yes"
                       /\ calls'[i].result = "none"
                       /\ last_crawl_times'[d] = now'
              /\ (~fresh /\ calls[i].get /\ calls[i].result = "none"
                         /\ calls'[i].result # "none")
                    => /\ calls'[i].result \in GetOutcomes
                       /\ last_crawl_times' = last_crawl_times
                       /\ last_crawl_times[d] # NoTime]_vars

\* Witness of C36: one call was blocked and left no timestamp for its
\* domain; another passed the policy check, its request ended in an error
\* and its domain's timestamp is the time the request went out.
C36_Witness ==
    \E i, j \in 1..Len(calls) :
        /\ calls[i].result = "blocked_by_robots_txt"
        /\ last_crawl_times[calls[i].url.netloc] = NoTime
        /\ calls[j].result \in {"http_error", "timeout", "other"}
        /\ calls[j].returned > 0
        /\ last_crawl_times[calls[j].url.netloc] = calls[j].returned

\* ------------------------------------------------------------ crawl_company
\* C37: crawl_company fetches its URLs one at a time in list order and sends
\* one raw.events message per URL fetched without error, in that order, and
\* none for the others; whatever happens to one URL, the crawl ends only
\* after every URL of the list has been fetched.
C37_CrawlInOrder ==
    /\ Len(calls) <= Len(job)
    /\ \A i \in 1..Len(calls) :
          /\ calls[i].url = job[i]
          /\ i < Len(calls) => calls[i].result # "none"
          /\ calls[i].result = "ok" => \E k \in 1..Len(sent) : sent[k].call = i
    /\ \A k \in 1..Len(sent) :
          /\ sent[k].call \in 1..Len(calls)
          /\ calls[sent[k].call].result = "ok"
          /\ sent[k].data.url = job[sent[k].call]
          /\ \A l \in 1..Len(sent) : k < l => sent[k].call < sent[l].call
    /\ jpc # "running" => Len(calls) = Len(job)

\* ------------------------------------------------------- clean.events path
\* The state in hand was built by the handler of a clean.events message
OnCleanPath ==
    /\ handled # <<>>
    /\ consumed[Len(consumed)].topic = "clean.events"
    /\ handled[Len(handled)].created

\* C38: on the clean.events path the state holds exactly one event and no
\* signal, and whenever the scorer has stored its scores there,
\* bant_qualified and champ_qualified are false and the intent score is at
\* most 5.
C38_CleanEventScores ==
    OnCleanPath =>
        /\ Len(state.events) = 1
        /\ state.events[1].event_type = consumed[Len(consumed)].value.event_type
        /\ state.signals = <<>>
        /\ (Scored /\ handled[Len(handled)].stages = << "enricher", "scorer" >>) =>
              /\ ~state.scores["bant_qualified"]
              /\ ~state.scores["champ_qualified"]
              /\ state.scores["intent"] <= Pts(5)

\* Witness of C38: a recent job_posting message for a funded company of 300
\* employees was enriched and scored; its intent score is 5 and it is not
\* qualified.
C38_Witness ==
    /\ OnCleanPath
    /\ Scored
    /\ handled[Len(handled)].stages = << "enricher", "scorer" >>
    /\ state.company_data["total_funding"] > 0
    /\ state.scores["intent"] = Pts(5)
    /\ ~state.scores["bant_qualified"]

\* ------------------------------------------------------ generate_proposal
\* The message draft_proposal publishes: company_id, product_id and the
\* user, no company data
BareProposalRequest(v) ==
    DOMAIN v = {"action_type", "company_id", "product_id", "user_id"}

\* C39: for a generate_proposal action the scorer runs first and has
\* returned when the proposer runs, both on the state built from the
\* message; the state holds a proposal only if a backend is configured and
\* the message carried non-empty company data; a message with company_id and
\* product_id only ends without a proposal and with one error entry of each
\* stage.
C39_ScoreThenPropose ==
    LET i == Len(handled)
        v == consumed[i].value
        ran == handled[i].stages
        cd == Get(v, "company_data", EmptyDict)
    IN  (i > 0 /\ ActionOf(i, "generate_proposal")) =>
            /\ IsPrefix(ran, << "scorer", "proposer" >>)
            /\ ran = <<>> =>
                  state = AgentState(Get(v, "company_id", 0), cd,
                                     Get(v, "events", <<>>),
                                     Get(v, "signals", <<>>))
            /\ ran = << "scorer" >> =>
                  /\ stage = "scorer"
                  /\ begun.state = AgentState(Get(v, "company_id", 0), cd,
                                              Get(v, "events", <<>>),
                                              Get(v, "signals", <<>>))
                  /\ state.proposal = EmptyDict
            /\ ran = << "scorer", "proposer" >> =>
                  /\ stage = "proposer"
                  /\ Len(hist) >= 1
                  /\ hist[1].stage = "scorer"
                  /\ hist[1].company_data = cd
                  /\ begun.state.scores = hist[1].scores
                  /\ begun.state.company_id = Get(v, "company_id", 0)
            /\ state.proposal # EmptyDict =>
                  /\ llm
                  /\ cd # EmptyDict
                  /\ ran = << "scorer", "proposer" >>
            /\ (BareProposalRequest(v) /\ ran = << "scorer", "proposer" >>
                                       /\ spc = "idle") =>
                  /\ state.proposal = EmptyDict
                  /\ Len(state.errors) = 2
                  /\ state.errors[1].msg = "No company data to score"
                  /\ state.errors[2].msg \in
                        {"No LLM configured for proposal generation",
                         "No company data for proposal"}

\* Witness of C39: with a backend configured, a generate_proposal message
\* with company data was handled and its state holds scores and a proposal,
\* after a message with company_id and product_id only was handled.
C39_Witness ==
    /\ Len(handled) = 2
    /\ ActionOf(1, "generate_proposal")
    /\ BareProposalRequest(consumed[1].value)
    /\ handled[1].stages = << "scorer", "proposer" >>
    /\ ActionOf(2, "generate_proposal")
    /\ Finished(2)
    /\ llm
    /\ state.proposal # EmptyDict
    /\ "overall" \in DOMAIN state.scores
    /\ state.errors = <<>>

\* ---------------------------------------------------------------- tech stack
\* The vocabulary terms the texts and titles of the events mention, as
\* str.title() writes them
TermsFound(events) ==
    { Title(t) : t \in UNION { TechIn(Get(events[i], "text", ""))
                               \cup TechIn(Get(events[i], "title", ""))
                               : i \in 1..Len(events) } }

\* The Scoring stage has begun on the state a successful Enrichment run left
ScoringAfterEnrichment ==
    /\ stage = "scorer"
    /\ Len(hist) >= (IF spc = "idle" THEN 2 ELSE 1)
    /\ hist[1].stage = "enricher"
    /\ hist[1].company_data # EmptyDict
    /\ "category" \in DOMAIN begun.state.company_data

\* C40: after every Enrichment run on a company that returns without a
\* fault, tech_stack lists each vocabulary term found in the events once and
\* nothing else, whatever tech_stack the input held; with no term found, the
\* Scoring stage that follows starts on an empty tech_stack.
C40_TechStackFromEvents ==
    /\ Enriched =>
          LET ts == state.company_data["tech_stack"]
              found == TermsFound(begun.state.events)
          IN  /\ { ts[i] : i \in 1..Len(ts) } = found
              /\ Len(ts) = Cardinality(found)
    /\ ScoringAfterEnrichment =>
          LET ts == begun.state.company_data["tech_stack"]
              found == TermsFound(begun.state.events)
          IN  /\ { ts[i] : i \in 1..Len(ts) } = found
              /\ found = {} => ts = <<>>

\* Witness of C40: a company whose input listed Aws and Python was enriched
\* on one event that mentions no term, and the scorer then ran on the empty
\* tech_stack.
C40_Witness ==
    /\ ScoringAfterEnrichment
    /\ spc = "idle"
    /\ fault = NoFault
    /\ Get(hist[1].company_data, "tech_stack", <<>>) = <<"Aws", "Python">>
    /\ Len(state.events) = 1
    /\ state.company_data["tech_stack"] = <<>>
    /\ "fit" \in DOMAIN state.scores

====
